---- MODULE Spec2Model ----
(***************************************************************************)
(* Model of database/conversion/complete_fee_transformation.py:            *)
(* CompleteFeeDataTransformer, the legacy fee receipt -> fee ledger         *)
(* transformation (load, resolve enrollment, reconstruct history, emit     *)
(* receipts / ledger events / allocations / balance records).              *)
(*                                                                         *)
(* Text values that the code inspects character by character (enrollment   *)
(* codes, legacy student ids, receipt numbers) are sequences of            *)
(* one-character strings.  Amounts are whole currency units; a value       *)
(* formatted with "{:.2f}" is held as its number of hundredths.            *)
(* Dates are integers yyyymmdd.                                            *)
(***************************************************************************)
EXTENDS Integers, Sequences, FiniteSets, TLC

(***************************************************************************)
(* Bounds of the model.                                                    *)
(***************************************************************************)
MaxLedgerRows == 2
MaxRunRows == 2
MaxEmitRows == 1
MaxNumberRows == 3

(***************************************************************************)
(* Python values that are not text.                                        *)
(***************************************************************************)
\* float('nan'), what pandas yields for an empty cell
NaN == <<"<nan>">>
\* None
NoneVal == <<"<None>">>
\* {} as returned by find_balance_record when nothing matches
EmptyDict == [k \in {} |-> 0]

Digits == {"0", "1", "2", "3", "4", "5", "6", "7", "8", "9"}
DigitChar(d) == <<"0", "1", "2", "3", "4", "5", "6", "7", "8", "9">>[d + 1]

IsDigits(s) == \A i \in 1..Len(s) : s[i] \in Digits

\* dict.get(key, default)
Get(d, key, default) == IF key \in DOMAIN d THEN d[key] ELSE default

\* bool(x) for a text cell: the empty string is falsy, NaN and other text truthy
Truthy(s) == s # <<>>

(***************************************************************************)
(* load_mappings: the lookup tables, in insertion (file) order.            *)
(***************************************************************************)
\* student_enrollments_out.csv rows: enrollment_code -> enrollment data
enrollment_lookup ==
    << [enrollment_code |-> <<"C", "/", "1", "0", "/", "2", "0", "2", "3">>,
        enrollment_id |-> "e1", student_id |-> "s1"],
       [enrollment_code |-> <<"C", "/", "1", "0", "/", "2", "0", "2", "4">>,
        enrollment_id |-> "e2", student_id |-> "s1"],
       [enrollment_code |-> <<"D", "/", "1", "1", "/", "2", "0", "2", "3">>,
        enrollment_id |-> "e3", student_id |-> "s2"] >>

\* students_out.csv rows: str(legacy_student_id) -> student data
student_lookup ==
    << [legacy_student_id |-> <<"1", "0">>, student_id |-> "s1"],
       [legacy_student_id |-> <<"1", "1">>, student_id |-> "s2"],
       [legacy_student_id |-> <<"1", "2">>, student_id |-> "s3"] >>

InEnrollmentLookup(code) ==
    \E i \in 1..Len(enrollment_lookup) : enrollment_lookup[i].enrollment_code = code

EnrollmentByCode(code) ==
    enrollment_lookup[CHOOSE i \in 1..Len(enrollment_lookup) :
                          enrollment_lookup[i].enrollment_code = code]

InStudentLookup(key) ==
    \E i \in 1..Len(student_lookup) : student_lookup[i].legacy_student_id = key

StudentByLegacyId(key) ==
    student_lookup[CHOOSE i \in 1..Len(student_lookup) :
                       student_lookup[i].legacy_student_id = key]

\* "for enrol_code, enrol_data in self.enrollment_lookup.items(): if ...: return"
\* the first enrollment of the student in dict order, or "None" (loop falls through)
FirstEnrollmentOfStudent(mapped_student_id) ==
    LET hits == {i \in 1..Len(enrollment_lookup) :
                     enrollment_lookup[i].student_id = mapped_student_id}
    IN  IF hits = {} THEN "None"
        ELSE enrollment_lookup[CHOOSE i \in hits : \A j \in hits : i <= j].enrollment_id

(***************************************************************************)
(* create_fee_components                                                   *)
(***************************************************************************)
ComponentFields == <<"reg_fee", "sec_fee", "tut_fee", "other_fee">>

fee_component_mappings ==
    [reg_fee   |-> [id |-> "6dd45f0c-5e4d-4024-8a50-494761a01c33", code |-> "ADMISSION"],
     sec_fee   |-> [id |-> "1c2c736d-2d77-4956-8b5b-2ad385d032e0", code |-> "SECURITY"],
     tut_fee   |-> [id |-> "dd319c9-03de-4595-88a5-a2c3807f99bd", code |-> "TUITION"],
     other_fee |-> [id |-> "50456145-6cad-4b8c-a05c-22dd74e4a40a", code |-> "OTHER"]]

balance_field_mapping ==
    [reg_fee |-> "reg_balance", sec_fee |-> "sec_balance",
     tut_fee |-> "tut_balance", other_fee |-> "other_balance"]

(***************************************************************************)
(* safe_parse_date, determine_academic_year                                *)
(***************************************************************************)
\* a fee_date cell that pd.to_datetime cannot parse (or an empty cell)
BadDate == 0
FallbackDate == 20230101

safe_parse_date(date_str) ==
    IF date_str = BadDate THEN FallbackDate
    ELSE IF date_str \div 10000 < 100
         THEN date_str + 20000000          \* "00yy-..." -> "20yy-..."
         ELSE date_str

RECURSIVE DecStr(_)
\* str(n) for n >= 0
DecStr(n) == IF n < 10 THEN <<DigitChar(n)>>
             ELSE DecStr(n \div 10) \o <<DigitChar(n % 10)>>

\* s[2:]
FromThird(s) == SubSeq(s, 3, Len(s))

\* variant: the label of the calendar year, whatever the month
determine_calendar_year(date_str) ==
    LET year == safe_parse_date(date_str) \div 10000
    IN  DecStr(year) \o <<"-">> \o FromThird(DecStr(year + 1))

\* f"{year}-{str(year+1)[2:]}" from July on, f"{year-1}-{str(year)[2:]}" before
determine_academic_year(date_str) ==
    LET dt == safe_parse_date(date_str)
        year == dt \div 10000
        month == (dt \div 100) % 100
    IN  IF month >= 7 THEN DecStr(year) \o <<"-">> \o FromThird(DecStr(year + 1))
        ELSE DecStr(year - 1) \o <<"-">> \o FromThird(DecStr(year))

\* f"{x:.2f}" of a whole amount: its number of hundredths
Fmt2(x) == x * 100

(***************************************************************************)
(* find_enrollment_id                                                      *)
(***************************************************************************)
\* re.search(r'/(\d+)/\d{4}$', s): the start index of group(1), or 0
RegexGroupStart(s) ==
    LET n == Len(s)
        ok(i) == /\ i >= 1
                 /\ i + 1 <= n - 5
                 /\ s[i] = "/"
                 /\ IsDigits(SubSeq(s, i + 1, n - 5))
    IN  IF /\ n >= 7
           /\ s[n - 4] = "/"
           /\ IsDigits(SubSeq(s, n - 3, n))
           /\ \E i \in 1..n : ok(i)
        THEN (CHOOSE i \in 1..n : ok(i) /\ \A j \in 1..n : ok(j) => i <= j) + 1
        ELSE 0

\* the enrollment id, "None", or "TypeError" (re.search on a NaN cell)
find_enrollment_id(legacy_receipt) ==
    LET enrol_id == legacy_receipt.enrol_id
        legacy_student_id == legacy_receipt.student_id
        tier2 == IF InStudentLookup(legacy_student_id)
                 THEN FirstEnrollmentOfStudent(
                          StudentByLegacyId(legacy_student_id).student_id)
                 ELSE "None"
        tier3 == IF ~Truthy(enrol_id) THEN "None"
                 ELSE IF enrol_id = NaN THEN "TypeError"
                 ELSE LET g == RegexGroupStart(enrol_id)
                          extracted_student_id == SubSeq(enrol_id, g, Len(enrol_id) - 5)
                      IN  IF g = 0 THEN "None"
                          ELSE IF InStudentLookup(extracted_student_id)
                               THEN FirstEnrollmentOfStudent(
                                        StudentByLegacyId(extracted_student_id).student_id)
                               ELSE "None"
    IN  IF Truthy(enrol_id) /\ InEnrollmentLookup(enrol_id)
        THEN EnrollmentByCode(enrol_id).enrollment_id
        ELSE IF tier2 # "None" THEN tier2
        ELSE tier3

(***************************************************************************)
(* Text conversions: str(int), "%06d", str.strip                            *)
(***************************************************************************)
RECURSIVE ZeroPad(_, _)
\* left-pad with "0" to at least the given width (never truncates)
ZeroPad(s, width) == IF Len(s) >= width THEN s ELSE ZeroPad(<<"0">> \o s, width)

\* variant: a format that keeps one binary digit of the counter
MigNumberWrapping(n) == <<"M", "I", "G", "-">> \o ZeroPad(DecStr(n % 2), 6)

\* f"MIG-{n:06d}"
MigNumber(n) == <<"M", "I", "G", "-">> \o ZeroPad(DecStr(n), 6)

RECURSIVE LStrip(_)
LStrip(s) == IF s # <<>> /\ Head(s) = " " THEN LStrip(Tail(s)) ELSE s

RECURSIVE RStrip(_)
RStrip(s) == IF s # <<>> /\ s[Len(s)] = " " THEN RStrip(SubSeq(s, 1, Len(s) - 1)) ELSE s

\* s.strip()
Strip(s) == RStrip(LStrip(s))

\* str(x) of a cell: a text cell is itself, a missing cell (float nan) reads "nan"
Str(cell) == IF cell = NaN THEN <<"n", "a", "n">> ELSE cell

(***************************************************************************)
(* generate_unique_receipt_number                                          *)
(***************************************************************************)
\* variant: takes the counter as it is, without looking at the used set
NextFreeCounterNoSearch(used, counter) == counter

RECURSIVE NextFreeCounter(_, _)
\* the while loop: the first counter value >= counter whose MIG number is unused
NextFreeCounter(used, counter) ==
    IF MigNumber(counter) \notin used THEN counter
    ELSE NextFreeCounter(used, counter + 1)

\* variant: a kept legacy number is not recorded in the used set
generate_unrecorded_receipt_number(legacy_receipt_no, used, counter) ==
    LET clean_receipt_no == Strip(Str(legacy_receipt_no))
        n == NextFreeCounter(used, counter)
    IN  IF /\ legacy_receipt_no # NoneVal
           /\ clean_receipt_no # <<>>
           /\ clean_receipt_no # <<"0">>
           /\ clean_receipt_no \notin used
        THEN [number |-> clean_receipt_no, used |-> used, counter |-> counter]
        ELSE [number |-> MigNumber(n),
              used |-> used \cup {MigNumber(n)},
              counter |-> n + 1]

\* [number: the value returned, used, counter: the two fields afterwards]
generate_unique_receipt_number(legacy_receipt_no, used, counter) ==
    LET clean_receipt_no == Strip(Str(legacy_receipt_no))
        n == NextFreeCounter(used, counter)
    IN  IF /\ legacy_receipt_no # NoneVal
           /\ clean_receipt_no # <<>>
           /\ clean_receipt_no # <<"0">>
           /\ clean_receipt_no \notin used
        THEN [number |-> clean_receipt_no,
              used |-> used \cup {clean_receipt_no},
              counter |-> counter]
        ELSE [number |-> MigNumber(n),
              used |-> used \cup {MigNumber(n)},
              counter |-> n + 1]

(***************************************************************************)
(* calculate_total_amount, find_balance_record                             *)
(***************************************************************************)
\* float(receipt.get(field, 0) or 0)
Amount(receipt, field) == Get(receipt, field, 0)

\* variant: the sum leaves out other_fee
TotalWithoutOther(receipt) ==
    Amount(receipt, "reg_fee") + Amount(receipt, "sec_fee") + Amount(receipt, "tut_fee")

calculate_total_amount(receipt) ==
    Amount(receipt, "reg_fee") + Amount(receipt, "sec_fee")
        + Amount(receipt, "tut_fee") + Amount(receipt, "other_fee")

\* the first balance record of the receipt, or {}
\* variant: a receipt without a snapshot borrows the first snapshot of the file
find_balance_record_or_first(balance_records, receipt_id) ==
    LET hits == {i \in 1..Len(balance_records) :
                     DecStr(balance_records[i].feereceipt_id) = DecStr(receipt_id)}
    IN  IF hits # {} THEN balance_records[CHOOSE i \in hits : \A j \in hits : i <= j]
        ELSE IF balance_records = <<>> THEN EmptyDict
        ELSE balance_records[1]

find_balance_record(balance_records, receipt_id) ==
    LET hits == {i \in 1..Len(balance_records) :
                     DecStr(balance_records[i].feereceipt_id) = DecStr(receipt_id)}
    IN  IF hits = {} THEN EmptyDict
        ELSE balance_records[CHOOSE i \in hits : \A j \in hits : i <= j]

\* float(balance_record.get(balance_field, 0) or 0)
BalanceAfter(balance_record, field) == Get(balance_record, balance_field_mapping[field], 0)

(***************************************************************************)
(* reconstruct_student_fee_history                                         *)
(***************************************************************************)
RECURSIVE InsertByDate(_, _)
\* put r behind every element whose date is not later than r's (stable)
InsertByDate(sorted, r) ==
    IF sorted = <<>> THEN <<r>>
    ELSE IF safe_parse_date(sorted[Len(sorted)].fee_date) <= safe_parse_date(r.fee_date)
         THEN Append(sorted, r)
         ELSE Append(InsertByDate(SubSeq(sorted, 1, Len(sorted) - 1), r),
                     sorted[Len(sorted)])

\* variant: the receipts are left in input order
SortByInputOrder(receipts) == receipts

RECURSIVE SortByDate(_)
\* list.sort(key=safe_parse_date(fee_date)): ascending, stable
SortByDate(receipts) ==
    IF receipts = <<>> THEN <<>>
    ELSE InsertByDate(SortByDate(SubSeq(receipts, 1, Len(receipts) - 1)),
                      receipts[Len(receipts)])

\* the receipts of the student that resolve to the enrollment, in input order
StudentReceipts(receipts, student_id, enrollment_id) ==
    SelectSeq(receipts,
              LAMBDA r : /\ r.student_id = student_id
                         /\ find_enrollment_id(r) = enrollment_id)

\* variant: a charge for every component that was owed, paid on the receipt or not
NeedsInitialChargeWhenOwed(payment_amount, balance_after) ==
    balance_after + payment_amount > 0

\* the condition under which a component of the first receipt gets a charge
NeedsInitialCharge(payment_amount, balance_after) ==
    /\ payment_amount > 0
    /\ balance_after + payment_amount > 0

\* "if not fee_events": the charge events of a receipt, in component order
ChargeEvents(receipt, balance_record) ==
    LET fields == SelectSeq(ComponentFields,
                            LAMBDA f : NeedsInitialCharge(Amount(receipt, f),
                                                          BalanceAfter(balance_record, f)))
    IN  [i \in 1..Len(fields) |->
            [receipt |-> receipt,
             component |-> fields[i],
             event_type |-> "CHARGE_CREATED",
             amount |-> BalanceAfter(balance_record, fields[i]) + Amount(receipt, fields[i]),
             running_balance |->
                 BalanceAfter(balance_record, fields[i]) + Amount(receipt, fields[i]),
             is_initial_charge |-> TRUE]]

\* the event type given to a reconstructed payment
HistoryPaymentType(receipt) == "PAYMENT_RECEIVED"

\* the payment events of a receipt, in component order
PaymentEvents(receipt, balance_record) ==
    LET fields == SelectSeq(ComponentFields, LAMBDA f : Amount(receipt, f) > 0)
    IN  [i \in 1..Len(fields) |->
            [receipt |-> receipt,
             component |-> fields[i],
             event_type |-> HistoryPaymentType(receipt),
             amount |-> 0 - Amount(receipt, fields[i]),
             running_balance |-> BalanceAfter(balance_record, fields[i]),
             is_initial_charge |-> FALSE]]

\* variant: every receipt of the history creates charges
ChargesDueAlways(fee_events) == TRUE

\* "if not fee_events": charges are created while the history is empty
ChargesDue(fee_events) == fee_events = <<>>

RECURSIVE HistoryLoop(_, _, _, _)
\* "for receipt in student_receipts", from position k with fee_events so far
HistoryLoop(student_receipts, balance_records, k, fee_events) ==
    IF k > Len(student_receipts) THEN fee_events
    ELSE LET receipt == student_receipts[k]
             balance_record == find_balance_record(balance_records, receipt.id)
             charges == IF ChargesDue(fee_events)
                        THEN ChargeEvents(receipt, balance_record)
                        ELSE <<>>
         IN  HistoryLoop(student_receipts, balance_records, k + 1,
                         fee_events \o charges \o PaymentEvents(receipt, balance_record))

reconstruct_student_fee_history(receipts, balance_records, student_id, enrollment_id) ==
    HistoryLoop(SortByDate(StudentReceipts(receipts, student_id, enrollment_id)),
                balance_records, 1, <<>>)

(***************************************************************************)
(* State                                                                   *)
(***************************************************************************)
VARIABLES
    pc,                          \* position in run_complete_transformation
    idx,                         \* position of the current loop
    legacy_receipts,             \* self.legacy_receipts
    legacy_balance_records,      \* self.legacy_balance_records
    used_receipt_numbers,        \* self.used_receipt_numbers
    receipt_counter,             \* self.receipt_counter
    uuid_calls,                  \* number of uuid.uuid4() calls made so far
    transformed_receipts,        \* self.transformed_receipts
    transformed_events,          \* self.transformed_events
    transformed_allocations,     \* self.transformed_allocations
    transformed_balance_records, \* self.transformed_balance_records
    processed_count,             \* locals of transform_all_receipts
    skipped_no_enrollment,
    unmapped_enrollments,
    unmapped_students,
    processed_enrollments,
    enrollment_receipts,
    receipts_file_exists,        \* os.path.exists(legacy_receipts_file)
    files_written,               \* the files written under templates_path
    overrides_pc,                \* position in student_fee_overrides_transform.main
    overrides_idx,               \* position of its loop over admission_rows
    admission_rows,              \* the rows read from the admission file
    created_overrides,           \* main: created_overrides
    fee_overrides,               \* main: fee_overrides
    overrides_counts,            \* main: processed and the three skipped_* counters
    student_fee_overrides_out    \* the rows written to student_fee_overrides_out.csv

vars == <<pc, idx, legacy_receipts, legacy_balance_records, used_receipt_numbers,
          receipt_counter, uuid_calls, transformed_receipts, transformed_events,
          transformed_allocations, transformed_balance_records, processed_count,
          skipped_no_enrollment, unmapped_enrollments, unmapped_students,
          processed_enrollments, enrollment_receipts, receipts_file_exists,
          files_written, overrides_pc, overrides_idx, admission_rows,
          created_overrides, fee_overrides, overrides_counts,
          student_fee_overrides_out>>

inputs == <<legacy_receipts, legacy_balance_records>>
numbering == <<used_receipt_numbers, receipt_counter>>
outputs == <<transformed_receipts, transformed_events, transformed_allocations,
             transformed_balance_records>>
locals == <<processed_count, skipped_no_enrollment, unmapped_enrollments,
            unmapped_students, processed_enrollments, enrollment_receipts>>
files == <<receipts_file_exists, files_written>>
overrides == <<overrides_pc, overrides_idx, admission_rows, created_overrides,
               fee_overrides, overrides_counts, student_fee_overrides_out>>

\* __init__
Init ==
    /\ pc = "load"
    /\ idx = 1
    /\ legacy_receipts = <<>>
    /\ legacy_balance_records = <<>>
    /\ used_receipt_numbers = {}
    /\ receipt_counter = 1
    /\ uuid_calls = 0
    /\ transformed_receipts = <<>>
    /\ transformed_events = <<>>
    /\ transformed_allocations = <<>>
    /\ transformed_balance_records = <<>>
    /\ processed_count = 0
    /\ skipped_no_enrollment = 0
    /\ unmapped_enrollments = {}
    /\ unmapped_students = {}
    /\ processed_enrollments = {}
    /\ enrollment_receipts = <<>>
    /\ receipts_file_exists \in BOOLEAN
    /\ files_written = {}
    /\ overrides_pc = "load"
    /\ overrides_idx = 1
    /\ admission_rows = <<>>
    /\ created_overrides = {}
    /\ fee_overrides = <<>>
    /\ overrides_counts = [processed |-> 0, skipped_no_student |-> 0,
                           skipped_no_enrollment |-> 0, skipped_no_fee_plan |-> 0]
    /\ student_fee_overrides_out = <<>>

\* str(uuid.uuid4()) of the n-th call: a fresh value
Uuid(n) == <<"uuid", n>>

(***************************************************************************)
(* load_legacy_data: one row of the receipts file, with its balance-after  *)
(* snapshot row when the file of snapshots has one.                        *)
(***************************************************************************)
LoadLegacyRow(Rows, MaxRows) ==
    /\ pc = "load"
    /\ receipts_file_exists
    /\ Len(legacy_receipts) < MaxRows
    /\ \E row \in Rows :
          LET id == Len(legacy_receipts) + 1
          IN  /\ legacy_receipts' = Append(legacy_receipts, [id |-> id] @@ row.receipt)
              /\ legacy_balance_records' =
                     IF row.snapshot = EmptyDict THEN legacy_balance_records
                     ELSE Append(legacy_balance_records,
                                 [feereceipt_id |-> id] @@ row.snapshot)
    /\ UNCHANGED <<pc, idx, numbering, uuid_calls, outputs, locals, files>>
    /\ UNCHANGED overrides

\* variant: the receipts file is optional like the two other files, the run goes on
AfterMissingReceiptsFileGoOn == "finish"

\* where the run goes when the legacy receipts file does not exist: line 157 raises
AfterMissingReceiptsFile == "FileNotFoundError"

\* load_legacy_data without the receipts file; run_complete_transformation re-raises
MissingReceiptsFile ==
    /\ pc = "load"
    /\ ~receipts_file_exists
    /\ pc' = AfterMissingReceiptsFile
    /\ UNCHANGED <<idx, inputs, numbering, uuid_calls, outputs, locals, files>>
    /\ UNCHANGED overrides

\* run_complete_transformation: load_legacy_data returns, transform_all_receipts starts
StartTransform ==
    /\ pc = "load"
    /\ receipts_file_exists
    /\ pc' = IF legacy_receipts = <<>> THEN "finish" ELSE "group"
    /\ idx' = 1
    /\ UNCHANGED <<inputs, numbering, uuid_calls, outputs, locals, files>>
    /\ UNCHANGED overrides

(***************************************************************************)
(* transform_all_receipts, first loop: group receipts by enrollment        *)
(***************************************************************************)
\* enrollment_receipts[enrollment_id].append(receipt), keys in insertion order
AddToGroup(groups, enrollment_id, receipt) ==
    IF \E i \in 1..Len(groups) : groups[i].enrollment_id = enrollment_id
    THEN [i \in 1..Len(groups) |->
             IF groups[i].enrollment_id = enrollment_id
             THEN [groups[i] EXCEPT !.receipts = Append(@, receipt)]
             ELSE groups[i]]
    ELSE Append(groups, [enrollment_id |-> enrollment_id, receipts |-> <<receipt>>])

\* variant: the unresolved receipt is not counted
SkipIncrementNone(receipt) == 0

\* what the first loop adds to the skipped counter for an unresolved receipt
SkipIncrement(receipt) == 1

GroupReceipt ==
    /\ pc = "group"
    /\ LET receipt == legacy_receipts[idx]
           enrollment_id == find_enrollment_id(receipt)
           last == idx = Len(legacy_receipts)
       IN  IF enrollment_id = "TypeError"
           THEN /\ pc' = "TypeError"
                /\ UNCHANGED <<idx, locals>>
           ELSE /\ IF enrollment_id = "None"
                   THEN /\ unmapped_enrollments' =
                               unmapped_enrollments \cup {receipt.enrol_id}
                        /\ unmapped_students' =
                               unmapped_students \cup {receipt.student_id}
                        /\ skipped_no_enrollment' =
                               skipped_no_enrollment + SkipIncrement(receipt)
                        /\ UNCHANGED enrollment_receipts
                   ELSE /\ enrollment_receipts' =
                               AddToGroup(enrollment_receipts, enrollment_id, receipt)
                        /\ UNCHANGED <<unmapped_enrollments, unmapped_students,
                                       skipped_no_enrollment>>
                /\ idx' = IF last THEN 1 ELSE idx + 1
                /\ pc' = IF ~last THEN "group"
                         ELSE IF enrollment_receipts' = <<>> THEN "emit"
                         ELSE "reconstruct"
                /\ UNCHANGED <<processed_count, processed_enrollments>>
    /\ UNCHANGED <<inputs, numbering, uuid_calls, outputs, files>>
    /\ UNCHANGED overrides

(***************************************************************************)
(* transform_all_receipts, second loop: the ledger events of one           *)
(* enrollment's reconstructed history                                      *)
(***************************************************************************)
RECURSIVE UuidsUsed(_, _)
\* uuid4() calls made for the first k history events: one for the event id and
\* one for the receipt_id of every event that is not an initial charge
UuidsUsed(fee_events, k) ==
    IF k = 0 THEN 0
    ELSE UuidsUsed(fee_events, k - 1)
             + (IF fee_events[k].is_initial_charge THEN 1 ELSE 2)

\* variant: an initial charge, which has no receipt_id, gets no legacy id either
HistoryEventRecordChargeUnlinked(event, enrollment_id, base) ==
    [id |-> Uuid(base + 1),
     event_type |-> event.event_type,
     event_date |-> event.receipt.fee_date,
     enrollment_id |-> enrollment_id,
     academic_year |-> determine_academic_year(event.receipt.fee_date),
     fee_component_id |-> fee_component_mappings[event.component].id,
     amount |-> Fmt2(event.amount),
     running_balance |-> Fmt2(event.running_balance),
     receipt_id |-> IF event.is_initial_charge THEN <<>> ELSE Uuid(base + 2),
     legacy_receipt_id |-> IF event.is_initial_charge THEN <<>>
                           ELSE DecStr(event.receipt.id)]

HistoryEventRecord(event, enrollment_id, base) ==
    [id |-> Uuid(base + 1),
     event_type |-> event.event_type,
     event_date |-> event.receipt.fee_date,
     enrollment_id |-> enrollment_id,
     academic_year |-> determine_academic_year(event.receipt.fee_date),
     fee_component_id |-> fee_component_mappings[event.component].id,
     amount |-> Fmt2(event.amount),
     running_balance |-> Fmt2(event.running_balance),
     receipt_id |-> IF event.is_initial_charge THEN <<>> ELSE Uuid(base + 2),
     legacy_receipt_id |-> DecStr(event.receipt.id)]

ReconstructEnrollment ==
    /\ pc = "reconstruct"
    /\ LET group == enrollment_receipts[idx]
           enrollment_id == group.enrollment_id
           student_id == group.receipts[1].student_id
           fee_events == reconstruct_student_fee_history(
                             legacy_receipts, legacy_balance_records,
                             student_id, enrollment_id)
           last == idx = Len(enrollment_receipts)
       IN  /\ processed_enrollments' = processed_enrollments \cup {enrollment_id}
           /\ transformed_events' = transformed_events \o
                  [k \in 1..Len(fee_events) |->
                      HistoryEventRecord(fee_events[k], enrollment_id,
                                         uuid_calls + UuidsUsed(fee_events, k - 1))]
           /\ uuid_calls' = uuid_calls + UuidsUsed(fee_events, Len(fee_events))
           /\ idx' = IF last THEN 1 ELSE idx + 1
           /\ pc' = IF last THEN "emit" ELSE "reconstruct"
    /\ UNCHANGED <<inputs, numbering, transformed_receipts, transformed_allocations,
                   transformed_balance_records, processed_count, skipped_no_enrollment,
                   unmapped_enrollments, unmapped_students, enrollment_receipts, files>>
    /\ UNCHANGED overrides

(***************************************************************************)
(* transform_all_receipts, third loop: the receipt, its payment events,    *)
(* allocations and balance records                                         *)
(***************************************************************************)
\* variant: also drops a receipt whose total is zero
SkipsReceiptOrZeroTotal(receipt) ==
    \/ find_enrollment_id(receipt) = "None"
    \/ calculate_total_amount(receipt) = 0

\* "if not enrollment_id: continue"
SkipsReceipt(receipt) == find_enrollment_id(receipt) = "None"

ReceiptStatus(receipt) == IF receipt.is_cancelled THEN "CANCELLED" ELSE "ACTIVE"

ReceiptRecord(receipt, enrollment_id, receipt_id, unique_receipt_number) ==
    [id |-> receipt_id,
     receipt_number |-> unique_receipt_number,
     receipt_date |-> receipt.fee_date,
     enrollment_id |-> enrollment_id,
     academic_year |-> determine_academic_year(receipt.fee_date),
     total_amount |-> Fmt2(calculate_total_amount(receipt)),
     paid_amount |-> Fmt2(calculate_total_amount(receipt)),
     balance_amount |-> Fmt2(0),
     legacy_reg_fee |-> Fmt2(Amount(receipt, "reg_fee")),
     legacy_sec_fee |-> Fmt2(Amount(receipt, "sec_fee")),
     legacy_tut_fee |-> Fmt2(Amount(receipt, "tut_fee")),
     legacy_other_fee |-> Fmt2(Amount(receipt, "other_fee")),
     status |-> ReceiptStatus(receipt),
     legacy_receipt_id |-> DecStr(receipt.id)]

\* variant: the loop over the component fields forgets other_fee
PaidFieldsWithoutOther(receipt) ==
    SelectSeq(SubSeq(ComponentFields, 1, 3), LAMBDA f : Amount(receipt, f) > 0)

\* "if amount > 0": the components of the receipt that get an event and an allocation
PaidFields(receipt) == SelectSeq(ComponentFields, LAMBDA f : Amount(receipt, f) > 0)

RECURSIVE SumAmounts(_, _, _)
\* the sum of the receipt's amounts over fields[1..j]
SumAmounts(receipt, fields, j) ==
    IF j = 0 THEN 0
    ELSE SumAmounts(receipt, fields, j - 1) + Amount(receipt, fields[j])

\* the j-th payment event of the receipt; base uuid4() calls were made before it
ReceiptEventRecord(receipt, enrollment_id, receipt_id, fields, j, base) ==
    [id |-> Uuid(base + 1),
     event_type |-> IF receipt.is_cancelled THEN "PAYMENT_CANCELLED"
                    ELSE "PAYMENT_RECEIVED",
     event_date |-> receipt.fee_date,
     enrollment_id |-> enrollment_id,
     academic_year |-> determine_academic_year(receipt.fee_date),
     fee_component_id |-> fee_component_mappings[fields[j]].id,
     amount |-> Fmt2(Amount(receipt, fields[j])),
     running_balance |-> Fmt2(0 - SumAmounts(receipt, fields, j)),
     receipt_id |-> receipt_id,
     legacy_receipt_id |-> DecStr(receipt.id)]

AllocationRecord(receipt, enrollment_id, receipt_id, fields, j, base) ==
    [id |-> Uuid(base + 2),
     receipt_id |-> receipt_id,
     ledger_event_id |-> Uuid(base + 1),
     fee_component_id |-> fee_component_mappings[fields[j]].id,
     allocated_amount |-> Fmt2(Amount(receipt, fields[j])),
     enrollment_id |-> enrollment_id,
     academic_year |-> determine_academic_year(receipt.fee_date),
     receipt_date |-> receipt.fee_date,
     legacy_record_id |-> DecStr(receipt.id)]

\* variant: only the components the receipt pays get a balance record
BalanceFieldsPaidOnly(receipt, balance_record) ==
    SelectSeq(ComponentFields, LAMBDA f : Amount(receipt, f) > 0)

\* "if charge_amount > 0 or amount_paid > 0": the components that get a balance record
BalanceFields(receipt, balance_record) ==
    SelectSeq(ComponentFields,
              LAMBDA f : \/ BalanceAfter(balance_record, f) + Amount(receipt, f) > 0
                         \/ Amount(receipt, f) > 0)

BalanceRecord(receipt, balance_record, enrollment_id, receipt_id, field, base) ==
    [id |-> Uuid(base + 1),
     receipt_id |-> receipt_id,
     fee_component_id |-> fee_component_mappings[field].id,
     charge_amount |-> Fmt2(BalanceAfter(balance_record, field) + Amount(receipt, field)),
     paid_amount |-> Fmt2(Amount(receipt, field)),
     balance_amount |-> Fmt2(BalanceAfter(balance_record, field)),
     enrollment_id |-> enrollment_id,
     academic_year |-> determine_academic_year(receipt.fee_date),
     receipt_date |-> receipt.fee_date,
     legacy_record_id |-> DecStr(receipt.id)]

ProcessReceipt ==
    /\ pc = "emit"
    /\ LET receipt == legacy_receipts[idx]
           enrollment_id == find_enrollment_id(receipt)
           receipt_id == Uuid(uuid_calls + 1)
           numbered == generate_unique_receipt_number(
                           receipt.receipt_no, used_receipt_numbers, receipt_counter)
           fields == PaidFields(receipt)
           balance_record == find_balance_record(legacy_balance_records, receipt.id)
           bfields == BalanceFields(receipt, balance_record)
           base2 == uuid_calls + 1 + 2 * Len(fields)
       IN  IF SkipsReceipt(receipt)
           THEN UNCHANGED <<numbering, uuid_calls, outputs, processed_count>>
           ELSE /\ used_receipt_numbers' = numbered.used
                /\ receipt_counter' = numbered.counter
                /\ transformed_receipts' = Append(transformed_receipts,
                       ReceiptRecord(receipt, enrollment_id, receipt_id, numbered.number))
                /\ transformed_events' = transformed_events \o
                       [j \in 1..Len(fields) |->
                           ReceiptEventRecord(receipt, enrollment_id, receipt_id, fields, j,
                                              uuid_calls + 1 + 2 * (j - 1))]
                /\ transformed_allocations' = transformed_allocations \o
                       [j \in 1..Len(fields) |->
                           AllocationRecord(receipt, enrollment_id, receipt_id, fields, j,
                                            uuid_calls + 1 + 2 * (j - 1))]
                /\ transformed_balance_records' = transformed_balance_records \o
                       [j \in 1..Len(bfields) |->
                           BalanceRecord(receipt, balance_record, enrollment_id, receipt_id,
                                         bfields[j], base2 + (j - 1))]
                /\ uuid_calls' = base2 + Len(bfields)
                /\ processed_count' = processed_count + 1
    /\ idx' = IF idx = Len(legacy_receipts) THEN 1 ELSE idx + 1
    /\ pc' = IF idx = Len(legacy_receipts) THEN "finish" ELSE "emit"
    /\ UNCHANGED <<inputs, skipped_no_enrollment, unmapped_enrollments,
                   unmapped_students, processed_enrollments, enrollment_receipts, files>>
    /\ UNCHANGED overrides

\* the summary at the end of transform_all_receipts; the success rate divides by
\* len(self.legacy_receipts)
Finish ==
    /\ pc = "finish"
    /\ pc' = IF legacy_receipts = <<>> THEN "ZeroDivisionError" ELSE "done"
    /\ UNCHANGED <<idx, inputs, numbering, uuid_calls, outputs, locals, files>>
    /\ UNCHANGED overrides

(***************************************************************************)
(* save_transformed_data, generate_import_script                           *)
(***************************************************************************)
\* "if self.transformed_...: df.to_csv(...)": a table is written when it has rows
TableFiles ==
    (IF transformed_receipts # <<>> THEN {"transformed_fee_receipts.csv"} ELSE {})
    \cup (IF transformed_events # <<>>
          THEN {"transformed_fee_ledger_events.csv"} ELSE {})
    \cup (IF transformed_allocations # <<>>
          THEN {"transformed_fee_receipt_allocations.csv"} ELSE {})
    \cup (IF transformed_balance_records # <<>>
          THEN {"transformed_fee_receipt_balance_records.csv"} ELSE {})

SaveTransformedData ==
    /\ pc = "done"
    /\ pc' = "saved"
    /\ files_written' = files_written \cup TableFiles
    /\ UNCHANGED <<idx, inputs, numbering, uuid_calls, outputs, locals,
                   receipts_file_exists>>
    /\ UNCHANGED overrides

GenerateImportScript ==
    /\ pc = "saved"
    /\ pc' = "complete"
    /\ files_written' = files_written \cup {"import_fee_data.sql"}
    /\ UNCHANGED <<idx, inputs, numbering, uuid_calls, outputs, locals,
                   receipts_file_exists>>
    /\ UNCHANGED overrides

Transform == MissingReceiptsFile \/ StartTransform \/ GroupReceipt
                 \/ ReconstructEnrollment \/ ProcessReceipt \/ Finish
                 \/ SaveTransformedData \/ GenerateImportScript

(***************************************************************************)
(* Input rows                                                              *)
(***************************************************************************)
AmountVals == {0, 45000}

CodeC10 == <<"C", "/", "1", "0", "/", "2", "0", "2", "3">>
CodeZ10 == <<"Z", "/", "1", "0", "/", "2", "0", "2", "2">>
CodeZ12 == <<"Z", "/", "1", "2", "/", "2", "0", "2", "2">>
MigOne == <<"M", "I", "G", "-", "0", "0", "0", "0", "0", "1">>

Snapshot(reg, sec, tut, other) ==
    [reg_balance |-> reg, sec_balance |-> sec, tut_balance |-> tut, other_balance |-> other]

ReceiptFields(student_id, enrol_id, fee_date, fees, is_cancelled, receipt_no) ==
    [student_id |-> student_id, enrol_id |-> enrol_id, fee_date |-> fee_date,
     reg_fee |-> fees[1], sec_fee |-> fees[2], tut_fee |-> fees[3], other_fee |-> fees[4],
     is_cancelled |-> is_cancelled, receipt_no |-> receipt_no]

\* one student and enrollment; dates, admission and tuition payments and the
\* tuition balance vary
LedgerRows ==
    {[receipt |-> ReceiptFields(<<"1", "0">>, CodeC10, d, <<reg, 0, tut, 0>>, FALSE, <<"7">>),
      snapshot |-> snap] :
        d \in {20230701, 20240812}, reg \in AmountVals, tut \in AmountVals,
        snap \in {EmptyDict} \cup {Snapshot(0, 0, b, 0) : b \in AmountVals}}

\* resolution varies, with paid and with cancelled zero-total receipts
RunRows ==
    {[receipt |-> ReceiptFields(who[1], who[2], 20230701, <<0, 0, v[1], 0>>, v[2], no),
      snapshot |-> EmptyDict] :
        who \in {<<<<"1", "0">>, CodeC10>>, <<<<"1", "1">>, CodeC10>>,
                 <<<<"9", "9">>, CodeZ10>>, <<<<"9", "9">>, CodeZ12>>,
                 <<<<"9", "9">>, <<>>>>, <<<<"9", "9">>, NaN>>},
        v \in {<<45000, FALSE>>, <<0, TRUE>>},
        no \in {<<>>, <<"0">>, <<"7">>}}

\* every pairing of a legacy student id with an enrollment code cell
CodeShort == <<"Z", "/", "1", "0", "/", "2", "3">>

ResolveRows ==
    {[receipt |-> ReceiptFields(student, code, 20230701, <<0, 0, 45000, 0>>, FALSE, <<"7">>),
      snapshot |-> EmptyDict] :
        student \in {<<"1", "0">>, <<"1", "1">>, <<"1", "2">>, <<"9", "9">>},
        code \in {CodeC10, CodeZ10, CodeZ12, CodeShort, <<>>, NaN}}

\* legacy receipt numbers vary, on resolved and unresolved receipts
NumberRows ==
    {[receipt |-> ReceiptFields(who[1], who[2], 20230701, <<0, 0, 45000, 0>>, FALSE, no),
      snapshot |-> EmptyDict] :
        who \in {<<<<"1", "0">>, CodeC10>>, <<<<"9", "9">>, <<>>>>},
        no \in {NoneVal, NaN, <<>>, <<"0">>, <<"7">>, <<" ", "7">>, MigOne}}

\* all four component amounts and the cancellation flag vary
EmitRows ==
    {[receipt |-> ReceiptFields(<<"1", "0">>, CodeC10, 20230701,
                                <<reg, sec, tut, other>>, c, <<"7">>),
      snapshot |-> snap] :
        reg \in AmountVals, sec \in AmountVals, tut \in AmountVals, other \in AmountVals,
        c \in BOOLEAN,
        snap \in {EmptyDict, Snapshot(45000, 45000, 45000, 45000)}}

\* payment dates on both sides of July, at a century turn, with a "00yy" year and
\* unparseable
YearDates == {20230701, 20240630, 20990715, 20000101, 240812, BadDate}

YearRows ==
    {[receipt |-> ReceiptFields(<<"1", "0">>, CodeC10, d, <<reg, 0, tut, 0>>, FALSE, <<"7">>),
      snapshot |-> snap] :
        d \in YearDates, reg \in AmountVals, tut \in AmountVals,
        snap \in {EmptyDict, Snapshot(0, 0, 45000, 0)}}

\* negative amounts and balances, as a legacy export may hold them
NegativeRows ==
    {[receipt |-> ReceiptFields(<<"1", "0">>, CodeC10, 20230701,
                                <<reg, 0, tut, 0>>, FALSE, <<"7">>),
      snapshot |-> snap] :
        reg \in {0 - 45000, 0, 45000}, tut \in {0 - 45000, 0, 45000},
        snap \in {EmptyDict, Snapshot(0, 0, 90000, 0), Snapshot(0, 0, 0 - 45000, 0)}}

(***************************************************************************)
(* student_fee_overrides_transform.main: the tables it loads               *)
(***************************************************************************)
MaxAdmissionRows == 2

fee_state == <<pc, idx, inputs, numbering, uuid_calls, outputs, locals, files>>

\* students_out.csv: legacy_student_id -> id
student_map ==
    << [legacy_student_id |-> <<"1", "0">>, id |-> "s1"],
       [legacy_student_id |-> <<"1", "1">>, id |-> "s2"],
       [legacy_student_id |-> <<"1", "2">>, id |-> "s3"],
       [legacy_student_id |-> <<"1", "3">>, id |-> "s4"] >>

\* student_enrollments_out.csv
enrollment_rows ==
    << [id |-> "e1", student_id |-> "s1", course_id |-> "c1"],
       [id |-> "e2", student_id |-> "s1", course_id |-> "c2"],
       [id |-> "e3", student_id |-> "s2", course_id |-> "c3"],
       [id |-> "e4", student_id |-> "s3", course_id |-> "c4"] >>

\* fee_plans_out.csv
fee_plan_rows ==
    << [id |-> "p2", course_id |-> "c2"], [id |-> "p3", course_id |-> "c3"] >>

\* fee_plan_items_out.csv
fee_plan_item_rows ==
    << [id |-> "i1", fee_plan_id |-> "p2", component_code |-> "ADMISSION",
        year_number |-> <<"1">>],
       [id |-> "i2", fee_plan_id |-> "p2", component_code |-> "TUITION",
        year_number |-> <<"1">>] >>

\* student_map.get(legacy_student_id): the id, or "" when there is none
StudentUuid(legacy_student_id) ==
    LET hits == {i \in 1..Len(student_map) :
                     student_map[i].legacy_student_id = legacy_student_id}
    IN  IF hits = {} THEN "" ELSE student_map[CHOOSE i \in hits : TRUE].id

\* enrollment_map = {r.get('student_id'): r for r in enrollment_rows}: the last row
\* of the student; the positions of its rows
EnrollmentRowsOfStudent(student_uuid) ==
    {i \in 1..Len(enrollment_rows) : enrollment_rows[i].student_id = student_uuid}

EnrollmentOfStudent(student_uuid) ==
    enrollment_rows[CHOOSE i \in EnrollmentRowsOfStudent(student_uuid) :
                        \A j \in EnrollmentRowsOfStudent(student_uuid) : j <= i]

\* "for plan in fee_plan_rows: if plan.get('course_id') == course_id": positions
FeePlansOfCourse(course_id) ==
    {i \in 1..Len(fee_plan_rows) : fee_plan_rows[i].course_id = course_id}

FeePlanOfCourse(course_id) ==
    fee_plan_rows[CHOOSE i \in FeePlansOfCourse(course_id) :
                      \A j \in FeePlansOfCourse(course_id) : i <= j]

\* fee_plan_items_map.get(fee_plan_id, []): the items of the plan in file order
PlanItems(fee_plan_id) ==
    SelectSeq(fee_plan_item_rows, LAMBDA item : item.fee_plan_id = fee_plan_id)

(***************************************************************************)
(* main: the overrides of one admission row                                *)
(***************************************************************************)
\* the fee types in the order main goes through them: admission fees of years 1-6,
\* tuition fees of years 1-6, the security fee, the other fee
FeeSlots ==
    [k \in 1..14 |-> IF k <= 6 THEN <<"ADMISSION", k>>
                     ELSE IF k <= 12 THEN <<"TUITION", k - 6>>
                     ELSE IF k = 13 THEN <<"SECURITY", 1>>
                     ELSE <<"OTHER", 1>>]

RECURSIVE DecimalOf(_)
\* Decimal(s) of a string of digits
DecimalOf(s) ==
    IF s = <<>> THEN 0
    ELSE 10 * DecimalOf(SubSeq(s, 1, Len(s) - 1))
             + (CHOOSE n \in 0..9 : DigitChar(n) = s[Len(s)])

\* safe_decimal(value): <<>> for None (empty or invalid text), <<n>> for the number n;
\* text that is not a string of digits counts as invalid
safe_decimal(value) ==
    IF Strip(value) = <<>> \/ ~IsDigits(Strip(value)) THEN <<>>
    ELSE <<DecimalOf(Strip(value))>>

\* "actual is not None and actual > 0"
IsPositive(actual) == actual # <<>> /\ actual[1] > 0

\* the plan item an override refers to: the first item of the fee type (and year),
\* or the first item of the plan, or {'id': ''}
PlanItemId(plan_items, slot) ==
    LET matches == {i \in 1..Len(plan_items) :
                       /\ plan_items[i].component_code = slot[1]
                       /\ slot[1] \in {"ADMISSION", "TUITION"} =>
                              plan_items[i].year_number = DecStr(slot[2])}
    IN  IF matches # {}
        THEN plan_items[CHOOSE i \in matches : \A j \in matches : i <= j].id
        ELSE IF plan_items # <<>> THEN plan_items[1].id
        ELSE ""

\* variant: one override per enrollment, plan item and fee type
OverrideKeyPerFeeType(enrollment_id, plan_item_id, slot) ==
    <<enrollment_id, plan_item_id, slot>>

\* override_key = (enrollment_id, plan_item_id)
OverrideKey(enrollment_id, plan_item_id, slot) == <<enrollment_id, plan_item_id>>

OverrideRecord(legacy_student_id, enrollment_id, plan_item_id, slot, actual) ==
    [id |-> <<"feeoverride", legacy_student_id, slot[1], DecStr(slot[2])>>,
     enrollment_id |-> enrollment_id,
     fee_plan_item_id |-> plan_item_id,
     year_number |-> slot[2],
     component_code |-> slot[1],
     override_amount |-> DecStr(actual[1])]

RECURSIVE SlotLoop(_, _, _, _, _)
\* the four blocks of main for one admission row, from fee type k on;
\* acc = [created: created_overrides, rows: fee_overrides]
SlotLoop(k, admission, enrollment_id, plan_items, acc) ==
    IF k > Len(FeeSlots) THEN acc
    ELSE LET slot == FeeSlots[k]
             actual == safe_decimal(admission.fee_data[slot])
             plan_item_id == PlanItemId(plan_items, slot)
             override_key == OverrideKey(enrollment_id, plan_item_id, slot)
             next == IF IsPositive(actual) /\ override_key \notin acc.created
                     THEN [created |-> acc.created \cup {override_key},
                           rows |-> Append(acc.rows,
                                           OverrideRecord(admission.student_id,
                                                          enrollment_id, plan_item_id,
                                                          slot, actual))]
                     ELSE acc
         IN  SlotLoop(k + 1, admission, enrollment_id, plan_items, next)

(***************************************************************************)
(* main: its steps                                                         *)
(***************************************************************************)
LoadAdmissionRow(Rows) ==
    /\ overrides_pc = "load"
    /\ Len(admission_rows) < MaxAdmissionRows
    /\ \E row \in Rows : admission_rows' = Append(admission_rows, row)
    /\ UNCHANGED <<overrides_pc, overrides_idx, created_overrides, fee_overrides,
                   overrides_counts, student_fee_overrides_out>>
    /\ UNCHANGED fee_state

StartOverrides ==
    /\ overrides_pc = "load"
    /\ overrides_pc' = "process"
    /\ UNCHANGED <<overrides_idx, admission_rows, created_overrides, fee_overrides,
                   overrides_counts, student_fee_overrides_out>>
    /\ UNCHANGED fee_state

\* one pass of "for admission in admission_rows"
ProcessAdmission ==
    /\ overrides_pc = "process"
    /\ overrides_idx <= Len(admission_rows)
    /\ LET admission == admission_rows[overrides_idx]
           legacy_student_id == Strip(admission.student_id)
           student_uuid == StudentUuid(legacy_student_id)
           enrollment == EnrollmentOfStudent(student_uuid)
           fee_plan == FeePlanOfCourse(enrollment.course_id)
           done == SlotLoop(1, admission, enrollment.id, PlanItems(fee_plan.id),
                            [created |-> created_overrides, rows |-> fee_overrides])
           Count(field) == [overrides_counts EXCEPT ![field] = @ + 1]
       IN  IF legacy_student_id = <<>>
           THEN UNCHANGED <<created_overrides, fee_overrides, overrides_counts>>
           ELSE IF student_uuid = ""
           THEN /\ overrides_counts' = Count("skipped_no_student")
                /\ UNCHANGED <<created_overrides, fee_overrides>>
           ELSE IF EnrollmentRowsOfStudent(student_uuid) = {}
           THEN /\ overrides_counts' = Count("skipped_no_enrollment")
                /\ UNCHANGED <<created_overrides, fee_overrides>>
           ELSE IF FeePlansOfCourse(enrollment.course_id) = {}
           THEN /\ overrides_counts' = Count("skipped_no_fee_plan")
                /\ UNCHANGED <<created_overrides, fee_overrides>>
           ELSE /\ created_overrides' = done.created
                /\ fee_overrides' = done.rows
                /\ overrides_counts' = Count("processed")
    /\ overrides_idx' = overrides_idx + 1
    /\ UNCHANGED <<overrides_pc, admission_rows, student_fee_overrides_out>>
    /\ UNCHANGED fee_state

\* write_csv(out_dir / 'student_fee_overrides_out.csv', fieldnames, fee_overrides)
WriteOverrides ==
    /\ overrides_pc = "process"
    /\ overrides_idx > Len(admission_rows)
    /\ student_fee_overrides_out' = fee_overrides
    /\ overrides_pc' = "written"
    /\ UNCHANGED <<overrides_idx, admission_rows, created_overrides, fee_overrides,
                   overrides_counts>>
    /\ UNCHANGED fee_state

\* admission rows: mapped, unmapped and blank students; admission fees of years 1
\* and 2, the tuition fee of year 1 and the security fee present or not
FeeData(admsn1, admsn2, tuition1, security) ==
    [slot \in {FeeSlots[k] : k \in 1..Len(FeeSlots)} |->
        IF slot = <<"ADMISSION", 1>> THEN admsn1
        ELSE IF slot = <<"ADMISSION", 2>> THEN admsn2
        ELSE IF slot = <<"TUITION", 1>> THEN tuition1
        ELSE IF slot = <<"SECURITY", 1>> THEN security
        ELSE <<>>]

AdmissionRows ==
    {[student_id |-> student, fee_data |-> FeeData(a1, a2, rest[1], rest[2])] :
        student \in {<<"1", "0">>, <<"1", "1">>, <<"1", "2">>, <<"1", "3">>,
                     <<"9", "9">>, <<>>},
        a1 \in {<<>>, <<"5", "0", "0", "0">>}, a2 \in {<<>>, <<"0", "5", "0", "0", "0">>},
        rest \in {<< <<"x">>, <<"0">> >>,
                  << <<"4", "5", "0", "0", "0">>, <<"1", "0", "0", "0">> >>}}

(***************************************************************************)
(* Specifications                                                          *)
(***************************************************************************)
NextLedger == LoadLegacyRow(LedgerRows, MaxLedgerRows) \/ Transform
SpecLedger == Init /\ [][NextLedger]_vars

NextRun == LoadLegacyRow(RunRows, MaxRunRows) \/ Transform
SpecRun == Init /\ [][NextRun]_vars

NextNumber == LoadLegacyRow(NumberRows, MaxNumberRows) \/ Transform
SpecNumber == Init /\ [][NextNumber]_vars

NextResolve == LoadLegacyRow(ResolveRows, MaxRunRows) \/ Transform
SpecResolve == Init /\ [][NextResolve]_vars

NextYear == LoadLegacyRow(YearRows, MaxEmitRows) \/ Transform
SpecYear == Init /\ [][NextYear]_vars

NextOverrides ==
    LoadAdmissionRow(AdmissionRows) \/ StartOverrides \/ ProcessAdmission \/ WriteOverrides
\* main is run on its own: the other program has not been started
InitOverrides == Init /\ receipts_file_exists
SpecOverrides == InitOverrides /\ [][NextOverrides]_vars

NextNegative == LoadLegacyRow(NegativeRows, MaxEmitRows) \/ Transform
SpecNegative == Init /\ [][NextNegative]_vars

NextEmit == LoadLegacyRow(EmitRows, MaxEmitRows) \/ Transform
SpecEmit == Init /\ [][NextEmit]_vars

(***************************************************************************)
(* Vocabulary of the properties                                            *)
(***************************************************************************)
FieldSet == {ComponentFields[i] : i \in 1..Len(ComponentFields)}
EnrollmentIds == {enrollment_lookup[i].enrollment_id : i \in 1..Len(enrollment_lookup)}
PaymentTypes == {"PAYMENT_RECEIVED", "PAYMENT_CANCELLED"}

Resolved(receipt) == find_enrollment_id(receipt) \in EnrollmentIds

\* the legacy receipt a row's legacy id column names
LegacyOf(legacy_id) ==
    legacy_receipts[CHOOSE i \in 1..Len(legacy_receipts) :
                        DecStr(legacy_receipts[i].id) = legacy_id]

\* positions of the Receipts rows derived from the receipt
ReceiptRowsOf(receipt) ==
    {k \in 1..Len(transformed_receipts) :
         transformed_receipts[k].legacy_receipt_id = DecStr(receipt.id)}

\* the ledger events of one (enrollment, component) pair, in emission order
PairEvents(enrollment_id, field) ==
    SelectSeq(transformed_events,
              LAMBDA ev : /\ ev.enrollment_id = enrollment_id
                          /\ ev.fee_component_id = fee_component_mappings[field].id)

RECURSIVE InsertEventByDate(_, _)
InsertEventByDate(sorted, ev) ==
    IF sorted = <<>> THEN <<ev>>
    ELSE IF safe_parse_date(sorted[Len(sorted)].event_date) <= safe_parse_date(ev.event_date)
         THEN Append(sorted, ev)
         ELSE Append(InsertEventByDate(SubSeq(sorted, 1, Len(sorted) - 1), ev),
                     sorted[Len(sorted)])

RECURSIVE EventsInDateOrder(_)
\* date order, emission order for equal dates
EventsInDateOrder(events) ==
    IF events = <<>> THEN <<>>
    ELSE InsertEventByDate(EventsInDateOrder(SubSeq(events, 1, Len(events) - 1)),
                           events[Len(events)])

\* the receipts that resolve to the enrollment, chronologically (stable)
EnrollmentReceiptsByDate(enrollment_id) ==
    SortByDate(SelectSeq(legacy_receipts,
                         LAMBDA r : find_enrollment_id(r) = enrollment_id))

\* positions of the Allocations rows of a receipt id and component
AllocationsOf(receipt_id, field) ==
    {k \in 1..Len(transformed_allocations) :
         /\ transformed_allocations[k].receipt_id = receipt_id
         /\ transformed_allocations[k].fee_component_id = fee_component_mappings[field].id}

\* the two tuition receipts A and B of the concrete scenario, with their snapshots
ScenarioLoaded ==
    /\ Len(legacy_receipts) = 2
    /\ \A i \in 1..2 :
          /\ legacy_receipts[i].reg_fee = 0 /\ legacy_receipts[i].sec_fee = 0
          /\ legacy_receipts[i].other_fee = 0 /\ legacy_receipts[i].tut_fee = 45000
          /\ ~legacy_receipts[i].is_cancelled
    /\ legacy_receipts[1].fee_date = 20230701
    /\ legacy_receipts[2].fee_date = 20240812
    /\ legacy_balance_records =
           << [feereceipt_id |-> 1] @@ Snapshot(0, 0, 45000, 0),
              [feereceipt_id |-> 2] @@ Snapshot(0, 0, 0, 0) >>

EventSummary(ev) ==
    <<ev.event_type, ev.amount, ev.running_balance, ev.legacy_receipt_id>>

\* find_enrollment_id returned None for the receipt
Unresolved(receipt) == find_enrollment_id(receipt) = "None"

HasRowIn(table, column, receipt) ==
    \E k \in 1..Len(table) : table[k][column] = DecStr(receipt.id)

(***************************************************************************)
(* C1 - Running-balance consistency: after a run, for every (enrollment,   *)
(* component) pair, replaying the pair's ledger events in date order       *)
(* (emission order for equal dates) and summing the signed amounts from 0  *)
(* reproduces every event's stored running balance.                        *)
(* The code does not satisfy this: the third loop emits a second payment   *)
(* event per paid component, with a positive amount and a running balance  *)
(* counted down from 0 within the receipt.                                 *)
(***************************************************************************)
C1_RunningBalanceConsistent ==
    pc = "done" =>
        \A e \in EnrollmentIds, f \in FieldSet :
            LET evs == EventsInDateOrder(PairEvents(e, f))
            IN  \A k \in 1..Len(evs) :
                    evs[k].running_balance =
                        (IF k = 1 THEN 0 ELSE evs[k - 1].running_balance) + evs[k].amount

(***************************************************************************)
(* C2 - Opening-charge correctness, per component: if the enrollment's     *)
(* chronologically first receipt has balance-after + payment > 0 for the   *)
(* component, a CHARGE_CREATED event of exactly that amount and running    *)
(* balance is the first emitted event of the pair; otherwise the pair has  *)
(* no CHARGE_CREATED event.                                                *)
(* The code does not satisfy this: it creates the charge only for a        *)
(* component the receipt pays (payment_amount > 0), and on the first       *)
(* receipt that pays anything rather than on the first receipt.            *)
(***************************************************************************)
C2_OpeningChargeCorrect ==
    pc = "done" =>
        \A e \in EnrollmentIds, f \in FieldSet :
            LET rs == EnrollmentReceiptsByDate(e)
                evs == PairEvents(e, f)
                before == BalanceAfter(find_balance_record(legacy_balance_records,
                                                           rs[1].id), f)
                              + Amount(rs[1], f)
            IN  rs # <<>> =>
                    IF before > 0
                    THEN /\ evs # <<>>
                         /\ evs[1].event_type = "CHARGE_CREATED"
                         /\ evs[1].amount = Fmt2(before)
                         /\ evs[1].running_balance = Fmt2(before)
                    ELSE \A k \in 1..Len(evs) : evs[k].event_type # "CHARGE_CREATED"

(***************************************************************************)
(* C3 - No silent drops: after the run every receipt that resolves to an   *)
(* enrollment has exactly one Receipts row (by legacy receipt id), whether *)
(* cancelled, of zero total, or with a missing, zero or duplicate legacy   *)
(* number; an unresolved receipt has none.                                 *)
(***************************************************************************)
C3_NoSilentDrops ==
    pc = "done" =>
        \A i \in 1..Len(legacy_receipts) :
            Cardinality(ReceiptRowsOf(legacy_receipts[i])) =
                IF Resolved(legacy_receipts[i]) THEN 1 ELSE 0

C3_Witness ==
    /\ pc = "done"
    /\ \E i, j \in 1..Len(legacy_receipts) :
          /\ i < j
          /\ Resolved(legacy_receipts[i]) /\ Resolved(legacy_receipts[j])
          /\ legacy_receipts[i].receipt_no = <<"7">>
          /\ legacy_receipts[j].receipt_no = <<"7">>
          /\ legacy_receipts[j].is_cancelled
          /\ calculate_total_amount(legacy_receipts[j]) = 0
          /\ ReceiptRowsOf(legacy_receipts[j]) # {}

(***************************************************************************)
(* C4 - Receipt number uniqueness: no two Receipts rows carry the same     *)
(* receipt number, whatever mix of missing, empty, "0", repeated and       *)
(* MIG-looking legacy numbers the run has seen.                            *)
(***************************************************************************)
C4_ReceiptNumbersUnique ==
    \A i, j \in 1..Len(transformed_receipts) :
        i # j => transformed_receipts[i].receipt_number
                     # transformed_receipts[j].receipt_number

\* a legacy "MIG-000001" was kept and a later synthetic number had to skip it
C4_Witness ==
    /\ pc = "done"
    /\ \E i, j \in 1..Len(transformed_receipts) :
          /\ i < j
          /\ LegacyOf(transformed_receipts[i].legacy_receipt_id).receipt_no = MigOne
          /\ transformed_receipts[i].receipt_number = MigOne
          /\ LegacyOf(transformed_receipts[j].legacy_receipt_id).receipt_no = <<>>
          /\ transformed_receipts[j].receipt_number = MigNumber(2)

(***************************************************************************)
(* C5 - Allocation completeness: after the run, for every resolved receipt *)
(* and each of the four components, there is exactly one Allocation row    *)
(* with the receipt's id and the component's id when the legacy amount is  *)
(* > 0, carrying that amount, and no such row otherwise.                   *)
(***************************************************************************)
C5_AllocationComplete ==
    pc = "done" =>
        \A i \in 1..Len(legacy_receipts) :
            LET r == legacy_receipts[i]
            IN  Resolved(r) =>
                    \E k \in ReceiptRowsOf(r) :
                        \A f \in FieldSet :
                            LET rows == AllocationsOf(transformed_receipts[k].id, f)
                            IN  IF r[f] > 0
                                THEN /\ Cardinality(rows) = 1
                                     /\ \A a \in rows :
                                            transformed_allocations[a].allocated_amount
                                                = 100 * r[f]
                                ELSE rows = {}

\* a receipt that pays admission and other fees and nothing else
C5_Witness ==
    /\ pc = "done"
    /\ \E i \in 1..Len(legacy_receipts) :
          /\ legacy_receipts[i].reg_fee > 0
          /\ legacy_receipts[i].sec_fee = 0
          /\ legacy_receipts[i].tut_fee = 0
          /\ legacy_receipts[i].other_fee > 0
          /\ Len(transformed_allocations) = 2

(***************************************************************************)
(* C6 - Concrete scenario: one enrollment with two tuition-only receipts,  *)
(* A (2023-07-01, 45000, balance-after 45000) and B (2024-08-12, 45000,    *)
(* balance-after 0).  The ledger events of the (enrollment, TUITION) pair  *)
(* are exactly: CHARGE_CREATED 90000 / 90000; PAYMENT_RECEIVED -45000 /    *)
(* 45000 from A; PAYMENT_RECEIVED -45000 / 0 from B.                        *)
(* The code emits two more events for the pair, one per receipt, from the  *)
(* third loop.                                                             *)
(***************************************************************************)
C6_ScenarioEvents ==
    (pc = "done" /\ ScenarioLoaded) =>
        LET evs == PairEvents("e1", "tut_fee")
        IN  [k \in 1..Len(evs) |-> EventSummary(evs[k])] =
                << <<"CHARGE_CREATED", 9000000, 9000000, <<"1">> >>,
                   <<"PAYMENT_RECEIVED", 0 - 4500000, 4500000, <<"1">> >>,
                   <<"PAYMENT_RECEIVED", 0 - 4500000, 0, <<"2">> >> >>

(***************************************************************************)
(* C7 - Unresolved receipts are the only drop and are accounted for: a     *)
(* receipt for which find_enrollment_id returns None has no row in any of  *)
(* the four tables; once the grouping loop is over its enrollment code and *)
(* student id are in the diagnostic sets and the skipped counter equals    *)
(* the number of such receipts; no exception ends a run whose receipts all *)
(* resolve or return None; and at the end of the run                       *)
(* rows(Receipts) + skipped = number of legacy receipts.                   *)
(***************************************************************************)
C7_UnresolvedAccounted ==
    /\ \A i \in 1..Len(legacy_receipts) :
          LET r == legacy_receipts[i]
          IN  Unresolved(r) =>
                  /\ ~HasRowIn(transformed_receipts, "legacy_receipt_id", r)
                  /\ ~HasRowIn(transformed_events, "legacy_receipt_id", r)
                  /\ ~HasRowIn(transformed_allocations, "legacy_record_id", r)
                  /\ ~HasRowIn(transformed_balance_records, "legacy_record_id", r)
                  /\ pc \in {"reconstruct", "emit", "finish", "done"} =>
                         /\ r.enrol_id \in unmapped_enrollments
                         /\ r.student_id \in unmapped_students
    /\ pc \in {"reconstruct", "emit", "finish", "done"} =>
           skipped_no_enrollment =
               Cardinality({i \in 1..Len(legacy_receipts) :
                                Unresolved(legacy_receipts[i])})
    /\ (\A i \in 1..Len(legacy_receipts) :
            Unresolved(legacy_receipts[i]) \/ Resolved(legacy_receipts[i]))
           => pc # "TypeError"
    /\ pc = "done" =>
           Len(transformed_receipts) + skipped_no_enrollment = Len(legacy_receipts)

\* a finished run with an unresolved paid receipt next to a resolved one
C7_Witness ==
    /\ pc = "done"
    /\ skipped_no_enrollment >= 1
    /\ Len(transformed_receipts) >= 1
    /\ \E i \in 1..Len(legacy_receipts) :
          /\ Unresolved(legacy_receipts[i])
          /\ legacy_receipts[i].tut_fee > 0

(***************************************************************************)
(* C8 - Sign convention: every ledger event has a positive amount if it is *)
(* a CHARGE_CREATED event and a negative amount if it is a                 *)
(* PAYMENT_RECEIVED or PAYMENT_CANCELLED event.                            *)
(* The code's third loop writes the payment amount unsigned.               *)
(***************************************************************************)
C8_SignConvention ==
    \A k \in 1..Len(transformed_events) :
        LET ev == transformed_events[k]
        IN  /\ ev.event_type = "CHARGE_CREATED" => ev.amount > 0
            /\ ev.event_type \in PaymentTypes => ev.amount < 0

(***************************************************************************)
(* C9 - Cancelled receipts: every payment event that originates from a     *)
(* cancelled legacy receipt has type PAYMENT_CANCELLED and every payment   *)
(* event from a receipt that is not cancelled has type PAYMENT_RECEIVED.   *)
(* The reconstructed history types every payment PAYMENT_RECEIVED.         *)
(***************************************************************************)
C9_CancelledPaymentTypes ==
    \A k \in 1..Len(transformed_events) :
        LET ev == transformed_events[k]
        IN  ev.event_type # "CHARGE_CREATED" =>
                ev.event_type = IF LegacyOf(ev.legacy_receipt_id).is_cancelled
                                THEN "PAYMENT_CANCELLED"
                                ELSE "PAYMENT_RECEIVED"

(***************************************************************************)
(* C10 - Receipt row contents: the Receipts row of every resolved receipt  *)
(* has status CANCELLED if the legacy cancellation flag is set and ACTIVE  *)
(* otherwise, total_amount equal to the sum of the four component amounts, *)
(* and paid_amount equal to total_amount.                                  *)
(***************************************************************************)
C10_ReceiptRowContents ==
    /\ \A k \in 1..Len(transformed_receipts) :
          LET row == transformed_receipts[k]
              r == LegacyOf(row.legacy_receipt_id)
          IN  /\ row.status \in {"ACTIVE", "CANCELLED"}
              /\ row.status = "CANCELLED" <=> r.is_cancelled
              /\ row.total_amount =
                     100 * (r.reg_fee + r.sec_fee + r.tut_fee + r.other_fee)
              /\ row.paid_amount = row.total_amount
    /\ pc = "done" =>
           \A i \in 1..Len(legacy_receipts) :
               Resolved(legacy_receipts[i]) => ReceiptRowsOf(legacy_receipts[i]) # {}

\* a cancelled receipt paying all four components
C10_Witness ==
    /\ pc = "done"
    /\ \E k \in 1..Len(transformed_receipts) :
          /\ transformed_receipts[k].status = "CANCELLED"
          /\ transformed_receipts[k].total_amount = 18000000
          /\ transformed_receipts[k].legacy_other_fee = 4500000

(***************************************************************************)
(* Vocabulary of the properties (continued)                                *)
(***************************************************************************)
\* the component field a fee component id stands for
FieldOfComponent(component_id) ==
    CHOOSE f \in FieldSet : fee_component_mappings[f].id = component_id

\* the legacy id names a loaded receipt
NamesLegacyReceipt(legacy_id) ==
    /\ legacy_id # <<>>
    /\ \E i \in 1..Len(legacy_receipts) : DecStr(legacy_receipts[i].id) = legacy_id

\* the snapshot balance of the receipt for the component, 0 without a snapshot
SnapshotBalance(receipt, field) ==
    LET hits == {i \in 1..Len(legacy_balance_records) :
                     legacy_balance_records[i].feereceipt_id = receipt.id}
    IN  IF hits = {} THEN 0
        ELSE legacy_balance_records[CHOOSE i \in hits : \A j \in hits : i <= j]
                 [balance_field_mapping[field]]

(***************************************************************************)
(* C11 - Provenance is never dropped: every row of the four output tables  *)
(* (Receipts, LedgerEvents including CHARGE_CREATED events, Allocations,   *)
(* BalanceRecords) carries a non-empty legacy id that names the legacy     *)
(* receipt the row was derived from: the row has that receipt's date and   *)
(* enrollment and its amount comes from that receipt's component amount    *)
(* (for a charge, from its balance-after plus amount).                     *)
(***************************************************************************)
C11_ProvenanceKept ==
    /\ \A k \in 1..Len(transformed_receipts) :
          LET row == transformed_receipts[k]
          IN  /\ NamesLegacyReceipt(row.legacy_receipt_id)
              /\ row.receipt_date = LegacyOf(row.legacy_receipt_id).fee_date
              /\ row.enrollment_id = find_enrollment_id(LegacyOf(row.legacy_receipt_id))
    /\ \A k \in 1..Len(transformed_events) :
          LET row == transformed_events[k]
              f == FieldOfComponent(row.fee_component_id)
          IN  /\ NamesLegacyReceipt(row.legacy_receipt_id)
              /\ LET r == LegacyOf(row.legacy_receipt_id)
                 IN  /\ row.event_date = r.fee_date
                     /\ row.enrollment_id = find_enrollment_id(r)
                     /\ IF row.event_type = "CHARGE_CREATED"
                        THEN row.amount = 100 * (SnapshotBalance(r, f) + r[f])
                        ELSE row.amount \in {100 * r[f], 0 - 100 * r[f]}
    /\ \A k \in 1..Len(transformed_allocations) :
          LET row == transformed_allocations[k]
              f == FieldOfComponent(row.fee_component_id)
          IN  /\ NamesLegacyReceipt(row.legacy_record_id)
              /\ row.receipt_date = LegacyOf(row.legacy_record_id).fee_date
              /\ row.allocated_amount = 100 * LegacyOf(row.legacy_record_id)[f]
    /\ \A k \in 1..Len(transformed_balance_records) :
          LET row == transformed_balance_records[k]
              f == FieldOfComponent(row.fee_component_id)
          IN  /\ NamesLegacyReceipt(row.legacy_record_id)
              /\ row.receipt_date = LegacyOf(row.legacy_record_id).fee_date
              /\ row.paid_amount = 100 * LegacyOf(row.legacy_record_id)[f]

\* a finished run with a charge, payments, allocations and balance records of two
\* receipts with different dates
C11_Witness ==
    /\ pc = "done"
    /\ Len(legacy_receipts) = 2
    /\ legacy_receipts[1].fee_date # legacy_receipts[2].fee_date
    /\ \E k \in 1..Len(transformed_events) :
          /\ transformed_events[k].event_type = "CHARGE_CREATED"
          /\ transformed_events[k].legacy_receipt_id = <<"2">>
    /\ \E k \in 1..Len(transformed_allocations) :
          transformed_allocations[k].legacy_record_id = <<"1">>
    /\ \E k \in 1..Len(transformed_balance_records) :
          transformed_balance_records[k].legacy_record_id = <<"2">>

(***************************************************************************)
(* C12 - Missing primary source is fatal before output: when the legacy    *)
(* receipts file does not exist, load_legacy_data raises and the run ends  *)
(* there; no receipt is loaded, transform_all_receipts produces nothing,   *)
(* and neither the four tables nor the import script are written.          *)
(***************************************************************************)
C12_MissingSourceFatal ==
    ~receipts_file_exists =>
        /\ pc \in {"load", "FileNotFoundError"}
        /\ legacy_receipts = <<>>
        /\ transformed_receipts = <<>> /\ transformed_events = <<>>
        /\ transformed_allocations = <<>> /\ transformed_balance_records = <<>>
        /\ files_written = {}

C12_Witness == ~receipts_file_exists /\ pc = "FileNotFoundError"

\* an amount with the negative values read as 0
NonNegative(x) == IF x < 0 THEN 0 ELSE x

(***************************************************************************)
(* C13 - Negative legacy amounts are coerced to zero at ingestion: a       *)
(* negative component amount or snapshot balance counts as 0 everywhere,   *)
(* so no Receipts row has a negative total or legacy component column, the *)
(* total is the sum of the non-negative parts, and no ledger event,        *)
(* allocation or balance record carries a value taken from a negative      *)
(* amount.                                                                 *)
(* The code reads the amounts with float(x or 0) and never clamps them.    *)
(***************************************************************************)
C13_NegativesCoerced ==
    /\ \A k \in 1..Len(transformed_receipts) :
          LET row == transformed_receipts[k]
              r == LegacyOf(row.legacy_receipt_id)
          IN  /\ row.total_amount >= 0
              /\ row.legacy_reg_fee >= 0 /\ row.legacy_sec_fee >= 0
              /\ row.legacy_tut_fee >= 0 /\ row.legacy_other_fee >= 0
              /\ row.total_amount =
                     100 * (NonNegative(r.reg_fee) + NonNegative(r.sec_fee)
                                + NonNegative(r.tut_fee) + NonNegative(r.other_fee))
    /\ \A k \in 1..Len(transformed_balance_records) :
          LET row == transformed_balance_records[k]
              r == LegacyOf(row.legacy_record_id)
              f == FieldOfComponent(row.fee_component_id)
          IN  /\ row.paid_amount = 100 * NonNegative(r[f])
              /\ row.balance_amount = 100 * NonNegative(SnapshotBalance(r, f))
              /\ row.charge_amount = row.paid_amount + row.balance_amount
    /\ \A k \in 1..Len(transformed_events) :
          transformed_events[k].event_type = "CHARGE_CREATED" =>
              LET row == transformed_events[k]
                  r == LegacyOf(row.legacy_receipt_id)
                  f == FieldOfComponent(row.fee_component_id)
              IN  row.amount = 100 * (NonNegative(SnapshotBalance(r, f))
                                          + NonNegative(r[f]))

(***************************************************************************)
(* Vocabulary for enrollment resolution: the three tiers stated on the     *)
(* lookup tables, each the set of answers the tier allows.                 *)
(***************************************************************************)
EnrollmentsOfLegacyStudent(key) ==
    {i \in 1..Len(enrollment_lookup) :
        \E j \in 1..Len(student_lookup) :
            /\ student_lookup[j].legacy_student_id = key
            /\ enrollment_lookup[i].student_id = student_lookup[j].student_id}

FirstOf(hits) == enrollment_lookup[CHOOSE i \in hits : \A j \in hits : i <= j].enrollment_id

DirectHits(code) ==
    {i \in 1..Len(enrollment_lookup) : enrollment_lookup[i].enrollment_code = code}

\* the <digits> of a code ending in /<digits>/<4 digits>, as a set (empty if none)
TrailingStudentDigits(code) ==
    LET n == Len(code)
    IN  {SubSeq(code, k + 1, n - 5) : k \in {k \in 1..n :
            /\ k + 1 <= n - 5
            /\ code[k] = "/" /\ code[n - 4] = "/"
            /\ \A m \in ((k + 1)..(n - 5)) \cup ((n - 3)..n) : code[m] \in Digits}}

TieredOutcome(receipt) ==
    LET tier1 == DirectHits(receipt.enrol_id)
        tier2 == EnrollmentsOfLegacyStudent(receipt.student_id)
        tier3 == UNION {EnrollmentsOfLegacyStudent(d) :
                            d \in TrailingStudentDigits(receipt.enrol_id)}
    IN  IF tier1 # {} THEN FirstOf(tier1)
        ELSE IF tier2 # {} THEN FirstOf(tier2)
        ELSE IF tier3 # {} THEN FirstOf(tier3)
        ELSE "None"

IsTextCode(receipt) == receipt.enrol_id # NaN

(***************************************************************************)
(* C14 - Enrollment resolution is tiered and first match wins: for every   *)
(* loaded receipt find_enrollment_id returns the enrollment of the direct  *)
(* code lookup, otherwise the first enrollment of the student mapped from  *)
(* the legacy student id, otherwise the first enrollment of the student    *)
(* mapped from the digits of a code ending in /<digits>/<4 digits>,        *)
(* otherwise None.                                                         *)
(* A missing code cell on a receipt that tiers 1 and 2 do not resolve      *)
(* raises TypeError in re.search instead of returning None.                *)
(***************************************************************************)
C14_TieredResolution ==
    \A k \in 1..Len(legacy_receipts) :
        find_enrollment_id(legacy_receipts[k]) = TieredOutcome(legacy_receipts[k])

\* the tiers as stated hold for every receipt whose code cell is text
TieredOnTextCodes ==
    \A k \in 1..Len(legacy_receipts) :
        IsTextCode(legacy_receipts[k]) =>
            find_enrollment_id(legacy_receipts[k]) = TieredOutcome(legacy_receipts[k])

\* tier 2 finds the student without an enrollment and tier 3 resolves
TierTwoFallsThrough ==
    \E k \in 1..Len(legacy_receipts) :
        /\ legacy_receipts[k].student_id = <<"1", "2">>
        /\ legacy_receipts[k].enrol_id = CodeZ10
        /\ pc = "complete"

(***************************************************************************)
(* Vocabulary for the ledger of a finished run                             *)
(***************************************************************************)
RunFinished == pc \in {"done", "saved", "complete"}

\* positions of the payment events that carry the receipt's legacy id and the component
PaymentEventsOf(receipt, field) ==
    {k \in 1..Len(transformed_events) :
        /\ transformed_events[k].event_type \in PaymentTypes
        /\ transformed_events[k].legacy_receipt_id = DecStr(receipt.id)
        /\ transformed_events[k].fee_component_id = fee_component_mappings[field].id}

\* the (enrollment, component) pairs that have an event
PairsWithEvents ==
    {<<transformed_events[k].enrollment_id,
       FieldOfComponent(transformed_events[k].fee_component_id)>> :
         k \in 1..Len(transformed_events)}

(***************************************************************************)
(* C15 - Every payment ledger event (PAYMENT_RECEIVED or                   *)
(* PAYMENT_CANCELLED) of a receipt and component has running_balance equal *)
(* to the receipt's balance-after snapshot value for the component, 0 when *)
(* the snapshot is absent, never a recomputed value.                       *)
(* The events of the third loop of transform_all_receipts carry the        *)
(* negated sum of the receipt's amounts so far instead.                    *)
(***************************************************************************)
C15_RunningBalanceIsSnapshot ==
    \A k \in 1..Len(transformed_events) :
        LET row == transformed_events[k]
        IN  row.event_type \in PaymentTypes =>
                row.running_balance =
                    100 * SnapshotBalance(LegacyOf(row.legacy_receipt_id),
                                          FieldOfComponent(row.fee_component_id))

(***************************************************************************)
(* C16 - One payment event per paid component: in the ledger events of a   *)
(* finished run, every resolved receipt and every component with legacy    *)
(* amount > 0 has exactly one payment event carrying the receipt's legacy  *)
(* id and the component id.                                                *)
(* The second and the third loop of transform_all_receipts each emit one.  *)
(***************************************************************************)
C16_OnePaymentEventPerComponent ==
    RunFinished =>
        \A i \in 1..Len(legacy_receipts) : \A f \in FieldSet :
            (Resolved(legacy_receipts[i]) /\ legacy_receipts[i][f] > 0) =>
                Cardinality(PaymentEventsOf(legacy_receipts[i], f)) = 1

(***************************************************************************)
(* C17 - First event is a charge: in the ledger events of a finished run,  *)
(* for every (enrollment, component) pair that has an event the            *)
(* chronologically first event of the pair is a CHARGE_CREATED event with  *)
(* a non-negative amount, also when the component is first paid on a       *)
(* receipt later than the enrollment's first receipt.                      *)
(* Charges are created only while the history is empty, so a component     *)
(* first paid on a later receipt starts with a payment.                    *)
(***************************************************************************)
C17_FirstEventIsCharge ==
    RunFinished =>
        \A pair \in PairsWithEvents :
            LET first == EventsInDateOrder(PairEvents(pair[1], pair[2]))[1]
            IN  first.event_type = "CHARGE_CREATED" /\ first.amount >= 0

\* positions of the BalanceRecords rows of the receipt and component
BalanceRowsOf(receipt, field) ==
    {k \in 1..Len(transformed_balance_records) :
        /\ transformed_balance_records[k].legacy_record_id = DecStr(receipt.id)
        /\ transformed_balance_records[k].fee_component_id = fee_component_mappings[field].id}

(***************************************************************************)
(* C18 - BalanceRecord emission: after the run, for every resolved receipt *)
(* and each component, with paid the receipt's amount for the component    *)
(* and after the snapshot balance (0 if absent), there is a BalanceRecords *)
(* row if and only if after + paid > 0 or paid > 0; there is at most one   *)
(* such row, and it has charge_amount = after + paid, paid_amount = paid   *)
(* and balance_amount = after.                                             *)
(***************************************************************************)
C18_BalanceRecordEmission ==
    RunFinished =>
        \A i \in 1..Len(legacy_receipts) : \A f \in FieldSet :
            LET receipt == legacy_receipts[i]
                paid == receipt[f]
                after == SnapshotBalance(receipt, f)
                rows == BalanceRowsOf(receipt, f)
            IN  Resolved(receipt) =>
                    /\ Cardinality(rows) <= 1
                    /\ (rows # {}) <=> (after + paid > 0 \/ paid > 0)
                    /\ \A k \in rows :
                          /\ transformed_balance_records[k].charge_amount = 100 * (after + paid)
                          /\ transformed_balance_records[k].paid_amount = 100 * paid
                          /\ transformed_balance_records[k].balance_amount = 100 * after

\* a finished run whose only balance record is of a component that was owed but not
\* paid on the receipt
C18_Witness ==
    /\ pc = "done"
    /\ Len(transformed_balance_records) = 1
    /\ transformed_balance_records[1].paid_amount = 0
    /\ transformed_balance_records[1].balance_amount > 0
    /\ \E f \in FieldSet : BalanceRowsOf(legacy_receipts[1], f) = {}

(***************************************************************************)
(* Vocabulary for receipt numbering                                        *)
(***************************************************************************)
\* the legacy number cell holds a value
NumberPresent(no) == no \notin {NoneVal, NaN}

\* the numbers of the Receipts rows before row k: the used set when row k is numbered
NumbersBefore(k) == {transformed_receipts[j].receipt_number : j \in 1..(k - 1)}

SyntheticSuffixes == 1..(Len(transformed_receipts) + 2)

IsSynthetic(number) == \E n \in SyntheticSuffixes : number = MigNumber(n)

SuffixOf(number) == CHOOSE n \in SyntheticSuffixes : number = MigNumber(n)

LegacyNumberOf(k) == LegacyOf(transformed_receipts[k].legacy_receipt_id).receipt_no

\* row k keeps its legacy number under the rule, blanks around it disregarded
KeepsLegacyNumber(k) ==
    /\ NumberPresent(LegacyNumberOf(k))
    /\ Strip(LegacyNumberOf(k)) \notin {<<>>, <<"0">>}
    /\ Strip(LegacyNumberOf(k)) \notin NumbersBefore(k)

\* the synthetic numbers of the run have strictly increasing suffixes
SyntheticIncreasing ==
    \A i, j \in 1..Len(transformed_receipts) :
        (/\ i < j
         /\ ~KeepsLegacyNumber(i) /\ IsSynthetic(transformed_receipts[i].receipt_number)
         /\ ~KeepsLegacyNumber(j) /\ IsSynthetic(transformed_receipts[j].receipt_number)) =>
            SuffixOf(transformed_receipts[i].receipt_number)
                < SuffixOf(transformed_receipts[j].receipt_number)

(***************************************************************************)
(* C19 - Receipt numbering rule: a Receipts row carries its legacy receipt *)
(* number unchanged if and only if that number is present, non-empty after *)
(* trimming, not "0" and not already used; in every other case it carries  *)
(* a number of the form MIG-%06d from the shared counter, and the          *)
(* synthetic numbers of a run have strictly increasing suffixes in the     *)
(* order they are issued.                                                  *)
(* A missing number cell is numbered "nan", and a kept number is returned  *)
(* trimmed.                                                                *)
(***************************************************************************)
C19_NumberingRule ==
    /\ \A k \in 1..Len(transformed_receipts) :
          IF KeepsLegacyNumber(k)
          THEN transformed_receipts[k].receipt_number = LegacyNumberOf(k)
          ELSE /\ IsSynthetic(transformed_receipts[k].receipt_number)
               /\ transformed_receipts[k].receipt_number # LegacyNumberOf(k)
    /\ SyntheticIncreasing

\* on the cells that hold text (or None) the rule holds with the kept number trimmed
NumberingOnTextCells ==
    /\ \A k \in 1..Len(transformed_receipts) :
          LegacyNumberOf(k) # NaN =>
              IF KeepsLegacyNumber(k)
              THEN transformed_receipts[k].receipt_number = Strip(LegacyNumberOf(k))
              ELSE /\ IsSynthetic(transformed_receipts[k].receipt_number)
                   /\ transformed_receipts[k].receipt_number # LegacyNumberOf(k)
    /\ SyntheticIncreasing

\* no receipt of the enrollment has a positive amount for the component
NeverPaid(enrollment_id, field) ==
    \A i \in 1..Len(legacy_receipts) :
        find_enrollment_id(legacy_receipts[i]) = enrollment_id =>
            legacy_receipts[i][field] <= 0

(***************************************************************************)
(* C20 - Zero-activity component: if no receipt of an enrollment has a     *)
(* positive amount for a component, the ledger events contain no event at  *)
(* all for that (enrollment, component) pair, neither a charge (not even a *)
(* zero-amount one) nor a payment, whatever the snapshot balances for the  *)
(* component are.                                                          *)
(***************************************************************************)
C20_ZeroActivityNoEvents ==
    \A e \in EnrollmentIds : \A f \in FieldSet :
        NeverPaid(e, f) => PairEvents(e, f) = <<>>

\* a finished run that paid registration only, on a first receipt whose snapshot
\* shows tuition still owed
C20_Witness ==
    /\ pc = "done"
    /\ legacy_receipts # <<>>
    /\ NeverPaid("e1", "tut_fee")
    /\ SnapshotBalance(SortByDate(legacy_receipts)[1], "tut_fee") > 0
    /\ PairEvents("e1", "reg_fee") # <<>>
    /\ PairEvents("e1", "tut_fee") = <<>>

(***************************************************************************)
(* Vocabulary for the academic-year label                                  *)
(***************************************************************************)
\* "<a>-<bb>", bb zero-padded to two digits
YearLabel(a, bb) == DecStr(a) \o <<"-">> \o ZeroPad(DecStr(bb), 2)

\* the label of a payment date with a four-digit year, July-starting calendar
JulyLabel(date) ==
    LET y == date \div 10000
        m == (date \div 100) % 100
    IN  IF m >= 7 THEN YearLabel(y, (y + 1) % 100) ELSE YearLabel(y - 1, y % 100)

HasFourDigitYear(date) == date \div 10000 \in 1000..9999

(***************************************************************************)
(* C21 - Academic-year label: for a payment date with four-digit year y    *)
(* and month m, determine_academic_year returns "y-((y+1) mod 100)" when   *)
(* m >= 7 and "(y-1)-(y mod 100)" when m <= 6, the two-digit part          *)
(* zero-padded (2023-07 gives 2023-24, 2024-06 gives 2023-24, 2099-07      *)
(* gives 2099-00); the Receipts row, every Allocations row and every       *)
(* BalanceRecords row of one receipt carry the same label.                 *)
(***************************************************************************)
C21_AcademicYearLabel ==
    /\ determine_academic_year(20230701) = <<"2", "0", "2", "3", "-", "2", "4">>
    /\ determine_academic_year(20240630) = <<"2", "0", "2", "3", "-", "2", "4">>
    /\ determine_academic_year(20990715) = <<"2", "0", "9", "9", "-", "0", "0">>
    /\ \A k \in 1..Len(transformed_receipts) :
          LET row == transformed_receipts[k]
              date == LegacyOf(row.legacy_receipt_id).fee_date
          IN  /\ HasFourDigitYear(date) => row.academic_year = JulyLabel(date)
              /\ \A a \in 1..Len(transformed_allocations) :
                    transformed_allocations[a].receipt_id = row.id =>
                        transformed_allocations[a].academic_year = row.academic_year
              /\ \A b \in 1..Len(transformed_balance_records) :
                    transformed_balance_records[b].receipt_id = row.id =>
                        transformed_balance_records[b].academic_year = row.academic_year

\* a receipt of June 2024 with an allocation and two balance records
C21_Witness ==
    /\ pc = "done"
    /\ legacy_receipts[1].fee_date = 20240630
    /\ transformed_receipts[1].academic_year = <<"2", "0", "2", "3", "-", "2", "4">>
    /\ transformed_allocations # <<>>
    /\ Len(transformed_balance_records) = 2

(***************************************************************************)
(* Vocabulary for the order of the reconstructed history                   *)
(***************************************************************************)
\* the reconstructed payment events of the enrollment (they carry the negated
\* amount), in emission order
ReconstructedPayments(enrollment_id) ==
    SelectSeq(transformed_events,
              LAMBDA ev : /\ ev.enrollment_id = enrollment_id
                          /\ ev.event_type \in PaymentTypes
                          /\ ev.amount < 0)

\* receipt a is not after receipt b: earlier date, or same date and not later in
\* the input
NotAfter(a, b) ==
    \/ safe_parse_date(a.fee_date) < safe_parse_date(b.fee_date)
    \/ safe_parse_date(a.fee_date) = safe_parse_date(b.fee_date) /\ a.id <= b.id

PaysSomething(receipt) == \E f \in FieldSet : receipt[f] > 0

NoSnapshot(receipt) ==
    \A i \in 1..Len(legacy_balance_records) :
        legacy_balance_records[i].feereceipt_id # receipt.id

\* positions of the events of the given type that the reconstruction made for the
\* receipt and component (a reconstructed payment carries the negated amount)
ReconstructedEventsOf(receipt, field, type) ==
    {k \in 1..Len(transformed_events) :
        /\ transformed_events[k].event_type = type
        /\ transformed_events[k].legacy_receipt_id = DecStr(receipt.id)
        /\ transformed_events[k].fee_component_id = fee_component_mappings[field].id
        /\ type = "CHARGE_CREATED" \/ transformed_events[k].amount < 0}

ErrorStates == {"FileNotFoundError", "TypeError", "ZeroDivisionError"}

IssuedFromCounter(k) ==
    /\ IsSynthetic(transformed_receipts[k].receipt_number)
    /\ transformed_receipts[k].receipt_number # Strip(Str(LegacyNumberOf(k)))

\* what holds of the numbering state after any number of calls
NumberingStateSound ==
    /\ \A k \in 1..Len(transformed_receipts) :
          /\ transformed_receipts[k].receipt_number \in used_receipt_numbers
          /\ IssuedFromCounter(k) =>
                 receipt_counter > SuffixOf(transformed_receipts[k].receipt_number)

(***************************************************************************)
(* C24 - Monotone numbering state: across any sequence of                  *)
(* generate_unique_receipt_number calls receipt_counter never decreases,   *)
(* used_receipt_numbers only grows, every number returned is in            *)
(* used_receipt_numbers, and after a synthetic number MIG-n is returned    *)
(* receipt_counter > n; find_enrollment_id and                             *)
(* reconstruct_student_fee_history (the grouping and reconstruction loops) *)
(* never modify either structure.                                          *)
(***************************************************************************)
C24_MonotoneNumbering ==
    [][/\ receipt_counter' >= receipt_counter
       /\ used_receipt_numbers \subseteq used_receipt_numbers'
       /\ pc \in {"group", "reconstruct"} => UNCHANGED numbering
       /\ NumberingStateSound']_vars

\* a kept legacy MIG-000001, a kept "7" and a synthetic MIG-000002 after it
C24_Witness ==
    /\ pc = "done"
    /\ receipt_counter = 3
    /\ used_receipt_numbers = {MigOne, <<"7">>, MigNumber(2)}

(***************************************************************************)
(* Vocabulary for the fee overrides                                        *)
(***************************************************************************)
\* the admission row gets past the three skips of main
AdmissionUsable(admission) ==
    /\ Strip(admission.student_id) # <<>>
    /\ StudentUuid(Strip(admission.student_id)) # ""
    /\ EnrollmentRowsOfStudent(StudentUuid(Strip(admission.student_id))) # {}
    /\ FeePlansOfCourse(
           EnrollmentOfStudent(StudentUuid(Strip(admission.student_id))).course_id) # {}

\* every override the admission row asks for, one per positive fee, in the order of main
CandidatesOfRow(admission) ==
    IF ~AdmissionUsable(admission) THEN <<>>
    ELSE LET enrollment == EnrollmentOfStudent(StudentUuid(Strip(admission.student_id)))
             plan_items == PlanItems(FeePlanOfCourse(enrollment.course_id).id)
             slots == SelectSeq(FeeSlots,
                                LAMBDA slot : IsPositive(safe_decimal(admission.fee_data[slot])))
         IN  [k \in 1..Len(slots) |->
                 OverrideRecord(admission.student_id, enrollment.id,
                                PlanItemId(plan_items, slots[k]), slots[k],
                                safe_decimal(admission.fee_data[slots[k]]))]

RECURSIVE AllCandidates(_)
\* the candidates of the first n admission rows
AllCandidates(n) ==
    IF n = 0 THEN <<>> ELSE AllCandidates(n - 1) \o CandidatesOfRow(admission_rows[n])

PairOf(row) == <<row.enrollment_id, row.fee_plan_item_id>>

\* positions of the candidates that are the first of their pair
FirstOfPair(candidates) ==
    {k \in 1..Len(candidates) :
        \A j \in 1..(k - 1) : PairOf(candidates[j]) # PairOf(candidates[k])}

NoPairTwice(rows) ==
    \A i, j \in 1..Len(rows) : i # j => PairOf(rows[i]) # PairOf(rows[j])

(***************************************************************************)
(* C25 - Fee-override de-duplication: in the output of                     *)
(* student_fee_overrides_transform.main no two override rows share the     *)
(* same (enrollment_id, fee_plan_item_id) pair, for any admission rows     *)
(* (also when several fee types fall back to the same placeholder plan     *)
(* item and when a student has several admission rows); the first override *)
(* created for a pair is the one kept.                                     *)
(***************************************************************************)
C25_OverridesDeduplicated ==
    /\ NoPairTwice(fee_overrides)
    /\ NoPairTwice(student_fee_overrides_out)
    /\ overrides_pc = "written" =>
          LET candidates == AllCandidates(Len(admission_rows))
          IN  /\ Len(student_fee_overrides_out) = Cardinality(FirstOfPair(candidates))
              /\ \A k \in 1..Len(student_fee_overrides_out) :
                    \E j \in FirstOfPair(candidates) :
                        student_fee_overrides_out[k] = candidates[j]

\* two admission rows of one student, the first with admission fees of both years
\* (year 2 falls back to the item of year 1): more candidates than rows kept
C25_Witness ==
    /\ overrides_pc = "written"
    /\ Len(admission_rows) = 2
    /\ admission_rows[1].student_id = <<"1", "0">>
    /\ admission_rows[2].student_id = <<"1", "0">>
    /\ IsPositive(safe_decimal(admission_rows[1].fee_data[<<"ADMISSION", 1>>]))
    /\ IsPositive(safe_decimal(admission_rows[1].fee_data[<<"ADMISSION", 2>>]))
    /\ IsPositive(safe_decimal(admission_rows[2].fee_data[<<"SECURITY", 1>>]))
    /\ Len(student_fee_overrides_out) = 2
    /\ Len(AllCandidates(2)) >= 5

(***************************************************************************)
(* C26 - Event-to-receipt referential integrity: after the run every       *)
(* ledger event whose receipt_id is non-empty references the id of a       *)
(* Receipts row of the run, and that row has the event's legacy receipt id *)
(* and enrollment; CHARGE_CREATED events have an empty receipt_id.         *)
(* The reconstructed payment events get a fresh uuid4 as receipt_id, which *)
(* is the id of no Receipts row.                                           *)
(***************************************************************************)
C26_EventReferencesReceipt ==
    RunFinished =>
        \A k \in 1..Len(transformed_events) :
            LET ev == transformed_events[k]
            IN  IF ev.event_type = "CHARGE_CREATED" THEN ev.receipt_id = <<>>
                ELSE ev.receipt_id # <<>> =>
                         \E r \in 1..Len(transformed_receipts) :
                             /\ transformed_receipts[r].id = ev.receipt_id
                             /\ transformed_receipts[r].legacy_receipt_id
                                    = ev.legacy_receipt_id
                             /\ transformed_receipts[r].enrollment_id = ev.enrollment_id

(***************************************************************************)
(* C27 - Reconstruction covers the whole enrollment group: after the run,  *)
(* for every receipt grouped under an enrollment and every component it    *)
(* pays with amount > 0 the reconstructed history of the enrollment has a  *)
(* payment event, also when receipts that resolve to the same enrollment   *)
(* carry different legacy student ids.                                     *)
(* reconstruct_student_fee_history keeps only the receipts whose student   *)
(* id equals that of the group's first receipt.                            *)
(***************************************************************************)
C27_ReconstructionCoversGroup ==
    RunFinished =>
        \A i \in 1..Len(legacy_receipts) : \A f \in FieldSet :
            (Resolved(legacy_receipts[i]) /\ legacy_receipts[i][f] > 0) =>
                ReconstructedEventsOf(legacy_receipts[i], f, "PAYMENT_RECEIVED") # {}

RECURSIVE SumAllocated(_, _)
\* the sum of allocated_amount over the first n Allocations rows with the receipt id
SumAllocated(receipt_id, n) ==
    IF n = 0 THEN 0
    ELSE SumAllocated(receipt_id, n - 1)
             + (IF transformed_allocations[n].receipt_id = receipt_id
                THEN transformed_allocations[n].allocated_amount ELSE 0)

\* the receipt total of every Receipts row is the sum of its allocations
TotalsMatchAllocations ==
    \A k \in 1..Len(transformed_receipts) :
        transformed_receipts[k].total_amount =
            SumAllocated(transformed_receipts[k].id, Len(transformed_allocations))

AmountsNonNegative ==
    \A i \in 1..Len(legacy_receipts) : \A f \in FieldSet : legacy_receipts[i][f] >= 0

(***************************************************************************)
(* C28 - Receipt total equals its allocations: after the run, for every    *)
(* Receipts row the sum of allocated_amount over the Allocations rows with *)
(* that receipt id equals the receipt's total_amount (0 when it has none), *)
(* for any legacy component amounts.                                       *)
(* The total adds all four amounts, the allocations only the positive      *)
(* ones.                                                                   *)
(***************************************************************************)
C28_TotalEqualsAllocations == RunFinished => TotalsMatchAllocations

\* with no negative component amount the totals match
TotalsMatchWhenNonNegative ==
    (RunFinished /\ AmountsNonNegative) => TotalsMatchAllocations

\* positions of the CHARGE_CREATED events of the (enrollment, component) pair
ChargesOfPair(enrollment_id, field) ==
    {k \in 1..Len(transformed_events) :
        /\ transformed_events[k].event_type = "CHARGE_CREATED"
        /\ transformed_events[k].enrollment_id = enrollment_id
        /\ transformed_events[k].fee_component_id = fee_component_mappings[field].id}

(***************************************************************************)
(* C29 - At most one opening charge: over a whole run the ledger events    *)
(* contain at most one CHARGE_CREATED event per (enrollment, component)    *)
(* pair, and every CHARGE_CREATED event has amount equal to its running    *)
(* balance.                                                                *)
(***************************************************************************)
C29_AtMostOneCharge ==
    /\ \A e \in EnrollmentIds : \A f \in FieldSet : Cardinality(ChargesOfPair(e, f)) <= 1
    /\ \A k \in 1..Len(transformed_events) :
          transformed_events[k].event_type = "CHARGE_CREATED" =>
              transformed_events[k].amount = transformed_events[k].running_balance

\* two receipts that both pay tuition and admission: one charge for each component
C29_Witness ==
    /\ pc = "done"
    /\ Len(legacy_receipts) = 2
    /\ \A i \in 1..2 : legacy_receipts[i].tut_fee > 0 /\ legacy_receipts[i].reg_fee > 0
    /\ Cardinality(ChargesOfPair("e1", "tut_fee")) = 1
    /\ Cardinality(ChargesOfPair("e1", "reg_fee")) = 1

(***************************************************************************)
(* Vocabulary for the search loop of generate_unique_receipt_number        *)
(***************************************************************************)
\* from this used set and counter the loop stops: an unused MIG number lies within
\* Cardinality(used) increments, and the loop returns the first one
SearchEnds(used, counter) ==
    /\ IsFiniteSet(used)
    /\ \E n \in counter..(counter + Cardinality(used)) : MigNumber(n) \notin used
    /\ LET n == NextFreeCounter(used, counter)
       IN  /\ n \in counter..(counter + Cardinality(used))
           /\ MigNumber(n) \notin used
           /\ \A m \in counter..(n - 1) : MigNumber(m) \in used

\* used sets made of MIG numbers as legacy data may hold them, runs included
LegacyRuns == SUBSET {MigNumber(n) : n \in 1..(MaxNumberRows + 1)}

\* the loop stops from every such set and every counter value up to past the run
SearchEndsOnLegacyRuns ==
    \A run \in LegacyRuns : \A counter \in 1..(MaxNumberRows + 2) : SearchEnds(run, counter)

(***************************************************************************)
(* C30 - generate_unique_receipt_number always terminates: for any finite  *)
(* used_receipt_numbers set (also one that holds a run of MIG-%06d numbers *)
(* taken from legacy data) and any counter value, the search loop reaches  *)
(* an unused synthetic number after finitely many increments and returns   *)
(* it.                                                                     *)
(***************************************************************************)
C30_NumberSearchTerminates ==
    /\ SearchEnds(used_receipt_numbers, receipt_counter)
    /\ \A counter \in 1..receipt_counter : SearchEnds(used_receipt_numbers, counter)
    /\ SearchEndsOnLegacyRuns

\* a kept legacy MIG-000001, its duplicate renumbered MIG-000002 after one
\* increment of the search, and a third number issued after that
C30_Witness ==
    /\ pc = "done"
    /\ Len(transformed_receipts) = 3
    /\ LegacyNumberOf(1) = MigOne /\ transformed_receipts[1].receipt_number = MigOne
    /\ LegacyNumberOf(2) = MigOne /\ transformed_receipts[2].receipt_number = MigNumber(2)
    /\ transformed_receipts[3].receipt_number = MigNumber(3)
    /\ receipt_counter = 4

====
